---- MODULE Spec2Model ----
(***************************************************************************)
(* Batch translation orchestration engine of wasabi_epub.                  *)
(*                                                                         *)
(* The repository holds two generations of the engine:                     *)
(*   "threshold"  src/unnamed/part_000: 80% validation of a response, a    *)
(*                run-time glossary guarded by a mutex, no retry rounds;   *)
(*   "rounds"     src/unnamed/part_001 and src/epubtest.js: every returned *)
(*                response is applied node by node, unresolved nodes are   *)
(*                resubmitted in retry rounds, no run-time glossary.       *)
(* The variable variant selects the generation that runs.                  *)
(***************************************************************************)
EXTENDS Integers, Sequences, FiniteSets, TLC

(* ------------------------------ bounds -------------------------------- *)
\* largest number of translatable nodes of the chapter
NumNodes == 2
\* largest node list handed to the batcher in SpecBatcher
MaxListLen == 4
\* largest number of glossary operations in SpecGlossary
MaxGlossaryOps == 4
\* largest number of chapters of the book in SpecRun
NumChapters == 2
\* longest "order" array of a planner response in SpecRun
MaxOrderLen == 2
\* largest number of tasks one batch set of a chapter holds in SpecRun
MaxTasks == 2
\* largest number of headings of the document in SpecHeadings
MaxHeadings == 2
\* largest number of references of the resource in SpecAnchors
MaxRefs == 2
\* largest number of elements of the chapter in SpecExtract
MaxElems == 3
MaxBatch == 5
MaxTexts == 2

(* ------------------------- program constants -------------------------- *)
MAX_ATTEMPTS == 3
MAX_RETRY_ROUNDS == 3
BATCH_SIZE_LIMIT_THRESHOLD == 4000
BATCH_SIZE_LIMIT_ROUNDS == 5000
GLOSSARY_WINDOW == 200
CONCURRENCY_GEMINI == 1
CONCURRENCY_QWEN == 5
CONCURRENCY_MIMO == 5
\* length of the attribute  data-t-id="node_<i>"  with its leading blank
MARKER_ATTR_LEN == 19
\* attempts of planTranslationOrder and of standardizeHeadingFormats
PLAN_ATTEMPTS == 3
NORMALIZE_ATTEMPTS == 3

Variants == {"threshold", "rounds"}
Providers == {"gemini", "qwen", "mimo"}

\* CONFIG[CURRENT_PROVIDER].concurrency
Concurrency(p) ==
    CASE p = "gemini" -> CONCURRENCY_GEMINI
      [] p = "qwen" -> CONCURRENCY_QWEN
      [] p = "mimo" -> CONCURRENCY_MIMO

BATCH_SIZE_LIMIT(v) ==
    IF v = "threshold" THEN BATCH_SIZE_LIMIT_THRESHOLD ELSE BATCH_SIZE_LIMIT_ROUNDS

\* content lengths the nodes of a chapter are drawn from
NodeLens == {1000, 3000}

(* ------------------------------ helpers ------------------------------- *)
Range(s) == {s[i] : i \in DOMAIN s}

RECURSIVE SumLen(_, _)
\* cumulative content length of a batch; len maps a node to its content length
SumLen(batch, len) ==
    IF batch = <<>> THEN 0 ELSE len[Head(batch)] + SumLen(Tail(batch), len)

RECURSIVE Flatten(_)
Flatten(bs) == IF bs = <<>> THEN <<>> ELSE Head(bs) \o Flatten(Tail(bs))

(* ------------------------------ Batcher ------------------------------- *)
\* the condition under which the batcher closes the current batch
CloseBatchMutBudget(currentLength, nodeLen, limit, currentBatch) ==
    currentLength > limit /\ Len(currentBatch) > 0

CloseBatchMutEmpty(currentLength, nodeLen, limit, currentBatch) ==
    currentLength + nodeLen > limit

CloseBatchMutEager(currentLength, nodeLen, limit, currentBatch) ==
    currentLength + nodeLen >= limit /\ Len(currentBatch) > 0

CloseBatch(currentLength, nodeLen, limit, currentBatch) ==
    currentLength + nodeLen > limit /\ Len(currentBatch) > 0

RECURSIVE BatchLoop(_, _, _, _, _, _)
\* the for loop of the batcher: nodes still to visit, batches, currentBatch, currentLength
BatchLoop(rest, len, limit, batches, currentBatch, currentLength) ==
    IF rest = <<>>
    THEN IF Len(currentBatch) > 0 THEN Append(batches, currentBatch) ELSE batches
    ELSE LET node == Head(rest) IN
         IF CloseBatch(currentLength, len[node], limit, currentBatch)
         THEN BatchLoop(Tail(rest), len, limit, Append(batches, currentBatch),
                        <<node>>, len[node])
         ELSE BatchLoop(Tail(rest), len, limit, batches,
                        Append(currentBatch, node), currentLength + len[node])

MakeBatches(nodeList, len, limit) == BatchLoop(nodeList, len, limit, <<>>, <<>>, 0)

(* --------------------------- Glossary Store --------------------------- *)
\* A property key of RUNTIME_GLOSSARY. kind "idx" is a canonical array index
\* ("7", "1984"); kind "str" is any other string. n identifies the key and, for
\* an index key, is its numeric value.
StrKey(n) == [kind |-> "str", n |-> n]
IdxKey(n) == [kind |-> "idx", n |-> n]

KeysOf(g) == {g[i].k : i \in DOMAIN g}
HasKey(g, k) == \E i \in DOMAIN g : g[i].k = k
ValueOf(g, k) == g[CHOOSE i \in DOMAIN g : g[i].k = k].v

\* number of leading entries of g that enumerate before a new index key k
RECURSIVE IdxPos(_, _)
IdxPos(g, k) ==
    IF g = <<>> THEN 0
    ELSE IF Head(g).k.kind = "idx" /\ Head(g).k.n < k.n
         THEN 1 + IdxPos(Tail(g), k)
         ELSE 0

\* RUNTIME_GLOSSARY[k] = v, the store kept in the order Object.entries
\* enumerates it: index keys ascending, then the other keys in creation order;
\* a key that is present keeps its place and takes the new value
SetPropertyMutAppend(g, k, v) == Append(g, [k |-> k, v |-> v])

SetProperty(g, k, v) ==
    IF HasKey(g, k)
    THEN [i \in DOMAIN g |-> IF g[i].k = k THEN [k |-> k, v |-> v] ELSE g[i]]
    ELSE IF k.kind = "idx"
         THEN LET p == IdxPos(g, k) IN
              SubSeq(g, 1, p) \o <<[k |-> k, v |-> v]>> \o SubSeq(g, p + 1, Len(g))
         ELSE Append(g, [k |-> k, v |-> v])

RECURSIVE ObjectAssign(_, _)
\* Object.assign(RUNTIME_GLOSSARY, newTerms): newTerms in its own enumeration order
ObjectAssignMutFirstOnly(g, terms) ==
    IF terms = <<>> THEN g ELSE SetProperty(g, Head(terms).k, Head(terms).v)

ObjectAssignMutReplace(g, terms) == terms

ObjectAssign(g, terms) ==
    IF terms = <<>> THEN g
    ELSE ObjectAssign(SetProperty(g, Head(terms).k, Head(terms).v), Tail(terms))

\* Object.entries(RUNTIME_GLOSSARY).slice(-200): the entries of the prompt
getGlossaryPrompt(g) ==
    IF Len(g) = 0 THEN <<>>
    ELSE SubSeq(g, IF Len(g) > GLOSSARY_WINDOW THEN Len(g) - GLOSSARY_WINDOW + 1 ELSE 1,
                Len(g))

(* ------------------------------ Document ------------------------------ *)
\* The chapter's document restricted to the elements the extractor selects.
\* par[n] is the nearest selected ancestor of element n (0: none); elements are
\* numbered in document order, so par[n] < n. A document d maps an element to
\*   exists  the element is still part of the document
\*   marker  it carries the data-t-id attribute
\*   text    "orig": its own markup is the input's, "new": a replacement
RECURSIVE IsAncestor(_, _, _)
IsAncestor(par, a, n) ==
    IF par[n] = 0 THEN FALSE
    ELSE par[n] = a \/ IsAncestor(par, a, par[n])

Descendants(par, n) == {m \in DOMAIN par : IsAncestor(par, n, m)}
Ancestors(par, n) == {a \in DOMAIN par : IsAncestor(par, a, n)}

FreshDoc(n) == [i \in 1..n |-> [exists |-> TRUE, marker |-> FALSE, text |-> "orig"]]

\* $el.attr("data-t-id", nodeId) on every eligible element
TagAll(d) == [i \in DOMAIN d |-> [d[i] EXCEPT !.marker = TRUE]]

\* the elements matched by the selector [data-t-id="<n>"]
Selected(d, n) == d[n].exists /\ d[n].marker

\* $parent(`[data-t-id="${n}"]`).html(translated).removeAttr("data-t-id"):
\* the element's children are replaced by the parsed replacement
ReplaceHtml(d, par, n) ==
    IF Selected(d, n)
    THEN [i \in DOMAIN d |->
            IF i = n THEN [exists |-> TRUE, marker |-> FALSE, text |-> "new"]
            ELSE IF i \in Descendants(par, n)
                 THEN [exists |-> FALSE, marker |-> FALSE, text |-> d[i].text]
                 ELSE d[i]]
    ELSE d

\* $parent(`[data-t-id="${n}"]`).removeAttr("data-t-id")
RemoveAttr(d, n) ==
    IF Selected(d, n) THEN [d EXCEPT ![n].marker = FALSE] ELSE d

\* $("[data-t-id]").removeAttr("data-t-id")
RemoveAllAttr(d) == [i \in DOMAIN d |-> [d[i] EXCEPT !.marker = FALSE]]

\* the elements $("[data-t-id]") finds, in document order
RECURSIVE MarkedFrom(_, _)
MarkedFrom(d, i) ==
    IF i > Len(d) THEN <<>>
    ELSE (IF Selected(d, i) THEN <<i>> ELSE <<>>) \o MarkedFrom(d, i + 1)

MarkedNodesMutAll(d) == [i \in 1..Len(d) |-> i]

MarkedNodesMutNone(d) == <<>>

MarkedNodes(d) == MarkedFrom(d, 1)

\* $(el).html().length of a still marked element in a retry round: its input
\* markup plus the marker attribute of every marked element inside it
RetryLen(d, par, lens) ==
    [n \in DOMAIN d |->
        lens[n] + MARKER_ATTR_LEN * Cardinality({m \in Descendants(par, n) : Selected(d, m)})]

\* the inner markup of element n is the input's: nothing in it was replaced
RECURSIVE Pristine(_, _, _)
Pristine(d, par, n) ==
    /\ d[n].exists
    /\ d[n].text = "orig"
    /\ \A c \in {m \in DOMAIN par : par[m] = n} : Pristine(d, par, c)

(* ---------------------- state of one chapter's run -------------------- *)
VARIABLES
    variant,      \* which generation of the engine runs
    concurrent,   \* option concurrent of batchQueue: CONFIG[CURRENT_PROVIDER].concurrency
    lens,         \* content length of each extracted node (node_1 .. node_n)
    par,          \* nesting of the extracted elements
    doc,          \* the chapter's document ($)
    chapterPc,    \* position of translateHtmlContent: "extract", "await", "done"
    retryRound,   \* retryRound of translateHtmlContent (0 until the first batch set is pushed)
    tasks,        \* the tasks of the batch set awaited, in push order
    mutexHeld,    \* the tasks holding glossaryMutex
    mutexQueue,   \* the tasks waiting for glossaryMutex, first come first served
    glossary,     \* RUNTIME_GLOSSARY
    mergeLog,     \* history: the term lists merged so far, in merge order
    exhaustedBefore  \* history: the nodes of the tasks that ended EXHAUSTED in the
                  \* batch set before the one awaited

queueVars == <<variant, concurrent, lens, par, doc, chapterPc, retryRound, tasks,
               mutexHeld, mutexQueue, glossary, mergeLog, exhaustedBefore>>

\* the batcher run on its own (SpecBatcher)
VARIABLES
    bLens,        \* content length of each node of the list
    bLimit,       \* BATCH_SIZE_LIMIT
    bRan,         \* the batcher has run
    bOut          \* the batches it produced

batcherVars == <<bLens, bLimit, bRan, bOut>>

\* the glossary store run on its own (SpecStore)
VARIABLES
    gStore,       \* RUNTIME_GLOSSARY
    gCreated,     \* history: the keys of the store in the order they were first inserted
    gLast,        \* history: the last operation, [op, terms, before]
    gSnap,        \* the entries of the last prompt
    gOps          \* number of operations so far

storeVars == <<gStore, gCreated, gLast, gSnap, gOps>>

\* one run of main (SpecRun)
VARIABLES
    build,        \* the source file that runs: "part_000", "part_001", "epubtest"
    chapters,     \* the ids of the chapters of the book, in reading order
    testLimit,        \* TEST_MODE_LIMIT (0: null, the whole book)
    headings,     \* the chapters hold headings
    runPc,        \* position of main
    planCalls,    \* service calls of the planner so far
    planFails,    \* attempts of planTranslationOrder
    plan,         \* what planTranslationOrder returned: [sorted, tocId]
    isTOC,        \* the chapters whose isTOC is true
    cur,          \* index i of the loop of performTranslation
    openTasks,         \* tasks of the current chapter that have not signalled completion
    chapterRound,        \* retry rounds of the current chapter so far
    submitted,    \* history: the chapters handed to translateHtmlContent, in order
    html,         \* html of each chapter of chapterMap
    normCalls,    \* service calls of heading normalization so far
    normFails,    \* attempts of heading normalization that failed
    corrections,  \* corrections: "empty" ({}), "null", "map"
    normDone,     \* heading normalization has gone over every chapter
    applied,      \* part_000: per chapter the loop of synchronizeHeadings has done, whether it held a heading
    retargeted,   \* history: cross-reference passes that have run
    saveCalls,    \* calls of saveEpub
    saved,        \* the chapters whose markup was handed to the archive
    fatalCause    \* what stopped the run

runVars == <<build, chapters, testLimit, headings, runPc, planCalls, planFails, plan,
             isTOC, cur, openTasks, chapterRound, submitted, html, normCalls,
             normFails, corrections, normDone, retargeted, saveCalls, saved,
             fatalCause, applied>>

\* heading normalization applied to one document (SpecHeadings)
VARIABLES
    hDoc,         \* the trimmed texts of the headings of the document, in document order
    hMap,         \* corrections, the CorrectionMap the service returned
    hPass,        \* number of times the map has been applied
    hOnce,        \* the headings after the first application
    hTwice        \* the headings after the second application

headVars == <<hDoc, hMap, hPass, hOnce, hTwice>>

\* cross-reference retargeting of one list of references (SpecAnchors)
VARIABLES
    aRefs,        \* the references of the resource, in document order
    aTarget,      \* the chapter the references point into
    aPass,        \* the pass that has run: "none", "toc", "ncx"
    aOut          \* the references after the pass

anchorVars == <<aRefs, aTarget, aPass, aOut>>

\* the tasks of one batch set applied to the document in some order (SpecReintegrate)
VARIABLES
    iVariant,     \* which generation of the engine runs
    iPar,         \* nesting of the extracted elements
    iRound,       \* retryRound of the batch set (0: the first batch set)
    iResp,        \* the response the service gives the task of each node, fixed for the run
    iDoc,         \* the chapter's document ($)
    iOrder,       \* history: the tasks in the order they completed
    iPc           \* "await": Promise.all pending, "next": a further round follows, "returned"

reintVars == <<iVariant, iPar, iRound, iResp, iDoc, iOrder, iPc>>

\* the extraction pass over one chapter (SpecExtract)
VARIABLES
    eIn,          \* htmlContent: the elements of the chapter's markup, in document order
    eDoc,         \* the document cheerio.load built ($)
    eNodes,       \* nodesToTranslate
    ePc,          \* "load", "extract", "branch", "batch", "returned"
    ePushed,      \* tasks pushed to batchQueue
    eOut          \* the markup translateHtmlContent returned

extractVars == <<eIn, eDoc, eNodes, ePc, ePushed, eOut>>

\* one call of callAI (SpecCall)
VARIABLES
    cBuild,       \* the source file that runs
    cProvider,    \* CURRENT_PROVIDER
    cContent,     \* userContent: "undefined", "empty", "blank", "text"
    cJson,        \* forceJsonMode
    cPc,          \* "enter", "awaiting", "returned", "threw"
    cRequests,    \* requests issued to the service
    cOutcome,     \* how the request settled
    cResult       \* what the caller gets: the returned text or the error raised

callVars == <<cBuild, cProvider, cContent, cJson, cPc, cRequests, cOutcome, cResult>>

\* the responses of the service applied to one batch (SpecApply)
VARIABLES
    pBuild,       \* the source file that runs
    pPar,         \* nesting of the extracted elements
    pDoc,         \* the live document
    pBatch,       \* task.batch
    pRound,       \* retry rounds pushed so far
    pAttempts,    \* attempts of the worker's while loop
    pStatus,      \* "IN_FLIGHT", "BACKOFF", "SUCCESS", "EXHAUSTED"
    pLast,        \* history: how the last call settled and what the loop was given
    pPrev,        \* history: the document before the last call settled
    pCommits,     \* history: how often the content of each node was replaced
    pTexts        \* history: responses handed to the apply loop so far

applyVars == <<pBuild, pPar, pDoc, pBatch, pRound, pAttempts, pStatus, pLast, pPrev,
               pCommits, pTexts>>

unitVars == <<reintVars, extractVars, callVars, applyVars>>

pureVars == <<headVars, anchorVars, unitVars>>

vars == <<queueVars, batcherVars, storeVars, runVars, pureVars>>

BatcherIdle == bLens = <<>> /\ bLimit = 0 /\ bRan = FALSE /\ bOut = <<>>
StoreIdle ==
    /\ gStore = <<>> /\ gCreated = <<>> /\ gSnap = <<>> /\ gOps = 0
    /\ gLast = [op |-> "none", terms |-> <<>>, before |-> <<>>]

HeadingsIdle ==
    /\ hDoc = <<>> /\ hMap = <<>> /\ hPass = 0 /\ hOnce = <<>> /\ hTwice = <<>>

AnchorsIdle ==
    /\ aRefs = <<>> /\ aTarget = <<>> /\ aPass = "none" /\ aOut = <<>>

ReintIdle ==
    /\ iVariant = "threshold" /\ iPar = <<>> /\ iRound = 0 /\ iResp = <<>>
    /\ iDoc = <<>> /\ iOrder = <<>> /\ iPc = "idle"

ExtractIdle ==
    /\ eIn = <<>> /\ eDoc = <<>> /\ eNodes = <<>> /\ ePc = "idle" /\ ePushed = 0
    /\ eOut = <<>>

CallIdle ==
    /\ cBuild = "none" /\ cProvider = "none" /\ cContent = "none" /\ cJson = FALSE
    /\ cPc = "idle" /\ cRequests = 0 /\ cOutcome = "none" /\ cResult = "none"

NoReply == [kind |-> "none", found |-> {}, bad |-> {}, threw |-> FALSE]

ApplyIdle ==
    /\ pBuild = "none" /\ pPar = <<>> /\ pDoc = <<>> /\ pBatch = <<>> /\ pRound = 0
    /\ pAttempts = 0 /\ pStatus = "idle" /\ pLast = NoReply /\ pPrev = <<>>
    /\ pCommits = <<>> /\ pTexts = 0

UnitIdle == ReintIdle /\ ExtractIdle /\ CallIdle /\ ApplyIdle

PureIdle == HeadingsIdle /\ AnchorsIdle /\ UnitIdle

NoPlan == [sorted |-> <<>>, tocId |-> "null"]

RunIdle ==
    /\ build = "none" /\ chapters = <<>> /\ testLimit = 0 /\ headings = FALSE
    /\ runPc = "idle" /\ planCalls = 0 /\ planFails = 0 /\ plan = NoPlan
    /\ isTOC = {} /\ cur = 0 /\ openTasks = 0 /\ chapterRound = 0
    /\ submitted = <<>> /\ html = <<>> /\ normCalls = 0 /\ normFails = 0
    /\ corrections = "empty" /\ normDone = FALSE /\ retargeted = {} /\ saveCalls = 0 /\ saved = {}
    /\ fatalCause = "none" /\ applied = <<>>

\* the glossary blocks a response of the service may carry
Visa == StrKey(1)
Hock == StrKey(2)
NoBlock == [block |-> "none", terms |-> <<>>]
BadBlock == [block |-> "bad", terms |-> <<>>]
EmptyBlock == [block |-> "json", terms |-> <<>>]
VisaBlock == [block |-> "json", terms |-> <<[k |-> Visa, v |-> 1]>>]
HockBlock == [block |-> "json", terms |-> <<[k |-> Hock, v |-> 1]>>]
BothBlock == [block |-> "json", terms |-> <<[k |-> Visa, v |-> 2], [k |-> Hock, v |-> 2]>>]
\* <glossary>["x"]</glossary>: JSON.parse returns an array, whose one own
\* enumerable property is the index "0"
ArrayBlock == [block |-> "array", terms |-> <<[k |-> IdxKey(0), v |-> 1]>>]
GlossaryBlocks == {NoBlock, BadBlock, EmptyBlock, VisaBlock, HockBlock, BothBlock}

\* JSON.parse(jsonStr) and Object.keys(newTerms) return without throwing: the
\* text of the block is JSON and its value is not null
Parses(g) == g.block \in {"json", "array"}

ErrorResponse == [kind |-> "error", found |-> {}, gloss |-> NoBlock]

\* what callAI can hand back for a batch: a failure, or a text in which the
\* wrapper of each node of found is recovered, with or without a glossary block;
\* the array block is drawn with the responses to the batch of the first node
\* that recover every node
Responses(batch, v) ==
    {ErrorResponse} \cup
    {[kind |-> "text", found |-> f, gloss |-> g] :
        f \in SUBSET Range(batch),
        g \in IF v = "threshold" THEN GlossaryBlocks ELSE {NoBlock}} \cup
    {[kind |-> "text", found |-> Range(batch), gloss |-> g] :
        g \in IF v = "threshold" /\ 1 \in Range(batch) THEN {ArrayBlock} ELSE {}}

NewTask(batch, round) ==
    [batch |-> batch, round |-> round, pc |-> "queued", attempts |-> 0,
     calls |-> 0, fails |-> 0, status |-> "PENDING", error |-> "none",
     snap |-> <<>>, snapMerges |-> 0, terms |-> <<>>]

RECURSIVE NewTasks(_, _)
NewTasks(batches, round) ==
    IF batches = <<>> THEN <<>>
    ELSE <<NewTask(Head(batches), round)>> \o NewTasks(Tail(batches), round)

\* the shapes of nesting a chapter of n extracted elements is drawn from: an
\* element lies inside an earlier element that is longer than it
Nestings(l) ==
    {p \in [DOMAIN l -> 0..Len(l)] :
        \A n \in DOMAIN l : p[n] < n /\ (p[n] # 0 => l[p[n]] > l[n])}

LenLists == UNION {[1..n -> NodeLens] : n \in 0..NumNodes}

Init ==
    /\ variant \in Variants
    /\ concurrent \in {Concurrency(p) : p \in Providers}
    /\ lens \in LenLists
    /\ par \in Nestings(lens)
    /\ doc = FreshDoc(Len(lens))
    /\ chapterPc = "extract"
    /\ retryRound = 0
    /\ tasks = <<>>
    /\ mutexHeld = {}
    /\ mutexQueue = <<>>
    /\ glossary = <<>>
    /\ mergeLog = <<>>
    /\ exhaustedBefore = {}
    /\ BatcherIdle
    /\ StoreIdle
    /\ RunIdle
    /\ PureIdle

Running == {t \in DOMAIN tasks : tasks[t].pc \notin {"queued", "done"}}
Queued == {t \in DOMAIN tasks : tasks[t].pc = "queued"}
AllDone == \A t \in DOMAIN tasks : tasks[t].pc = "done"

(* ------------------------- translateHtmlContent ----------------------- *)
\* extraction, batching and the push of the first batch set
Extract ==
    /\ chapterPc = "extract"
    /\ IF Len(lens) = 0
       THEN /\ chapterPc' = "done"
            /\ UNCHANGED <<doc, tasks>>
       ELSE /\ doc' = TagAll(doc)
            /\ tasks' = NewTasks(MakeBatches([i \in 1..Len(lens) |-> i], lens,
                                             BATCH_SIZE_LIMIT(variant)), 0)
            /\ chapterPc' = "await"
    /\ UNCHANGED <<batcherVars, storeVars, runVars, pureVars, exhaustedBefore, variant, concurrent, lens, par, retryRound, mutexHeld, mutexQueue,
                   glossary, mergeLog>>

\* Promise.all of the threshold generation resolves: the document is returned
ReturnThreshold ==
    /\ chapterPc = "await"
    /\ variant = "threshold"
    /\ AllDone
    /\ chapterPc' = "done"
    /\ UNCHANGED <<batcherVars, storeVars, runVars, pureVars, exhaustedBefore, variant, concurrent, lens, par, doc, retryRound, tasks, mutexHeld,
                   mutexQueue, glossary, mergeLog>>

\* Promise.all of the rounds generation resolves and a retry round is pushed
RetryRound ==
    /\ chapterPc = "await"
    /\ variant = "rounds"
    /\ AllDone
    /\ retryRound + 1 <= MAX_RETRY_ROUNDS
    /\ MarkedNodes(doc) # <<>>
    /\ tasks' = NewTasks(MakeBatches(MarkedNodes(doc), RetryLen(doc, par, lens),
                                              BATCH_SIZE_LIMIT(variant)), retryRound + 1)
    /\ retryRound' = retryRound + 1
    /\ exhaustedBefore' = UNION {Range(tasks[t].batch) :
                                  t \in {u \in DOMAIN tasks : tasks[u].status = "EXHAUSTED"}}
    /\ UNCHANGED <<batcherVars, storeVars, runVars, pureVars, variant, concurrent, lens, par, doc, chapterPc, mutexHeld, mutexQueue,
                   glossary, mergeLog>>

\* the retry loop ends: the remaining markers are stripped, the document returned
StripAndReturn ==
    /\ chapterPc = "await"
    /\ variant = "rounds"
    /\ AllDone
    /\ retryRound + 1 > MAX_RETRY_ROUNDS \/ MarkedNodes(doc) = <<>>
    /\ doc' = RemoveAllAttr(doc)
    /\ chapterPc' = "done"
    /\ UNCHANGED <<batcherVars, storeVars, runVars, pureVars, exhaustedBefore, variant, concurrent, lens, par, retryRound, tasks, mutexHeld,
                   mutexQueue, glossary, mergeLog>>

(* ------------------------- batchQueue worker -------------------------- *)
\* nodesFoundCount < batch.length * 0.8
FormatInvalidMutNoneFound(found, batch) == Cardinality(found) = 0

FormatInvalid(found, batch) == Cardinality(found) * 10 < Len(batch) * 8

\* attempts >= MAX_ATTEMPTS in the catch branch
AttemptsExhaustedMutOneMore(attempts) == attempts > MAX_ATTEMPTS

AttemptsExhausted(attempts) == attempts >= MAX_ATTEMPTS

\* a slot of the queue is free (option concurrent)
SlotFreeMutUnbounded(running, c) == TRUE

SlotFree(running, c) == Cardinality(running) < c

\* glossaryMutex is free
MutexFree(held) == held = {}

\* the apply loop cut short after the first node of the batch
ApplyValidatedMutFirst(d, p, batch, found) ==
    IF batch = <<>> THEN d
    ELSE IF Head(batch) \in found
         THEN ReplaceHtml(d, p, Head(batch))
         ELSE RemoveAttr(d, Head(batch))

RECURSIVE ApplyValidated(_, _, _, _)
\* threshold generation, after validation: a recovered node is replaced, the
\* marker of every other node of the batch is removed
ApplyValidated(d, p, batch, found) ==
    IF batch = <<>> THEN d
    ELSE ApplyValidated(IF Head(batch) \in found
                        THEN ReplaceHtml(d, p, Head(batch))
                        ELSE RemoveAttr(d, Head(batch)),
                        p, Tail(batch), found)

RECURSIVE ApplyRecovered(_, _, _, _)
\* rounds generation: every recovered node is replaced, the others are left alone
ApplyRecovered(d, p, batch, found) ==
    IF batch = <<>> THEN d
    ELSE ApplyRecovered(IF Head(batch) \in found
                        THEN ReplaceHtml(d, p, Head(batch))
                        ELSE d,
                        p, Tail(batch), found)

RECURSIVE StripBatch(_, _)
\* batch.forEach(n => $parent(`[data-t-id="${n.id}"]`).removeAttr("data-t-id"))
StripBatchMutKeep(d, batch) == d

StripBatch(d, batch) ==
    IF batch = <<>> THEN d ELSE StripBatch(RemoveAttr(d, Head(batch)), Tail(batch))

\* the start of one iteration of the while loop, up to its first await
BeginAttemptMutReuse(task, v) ==
    IF v = "threshold" /\ task.attempts = 0
    THEN [task EXCEPT !.attempts = @ + 1, !.pc = "snapWait", !.status = "IN_FLIGHT",
                      !.error = "none"]
    ELSE [task EXCEPT !.attempts = @ + 1, !.calls = @ + 1, !.pc = "calling",
                      !.status = "IN_FLIGHT", !.error = "none"]

BeginAttempt(task, v) ==
    IF v = "threshold"
    THEN [task EXCEPT !.attempts = @ + 1, !.pc = "snapWait", !.status = "IN_FLIGHT",
                      !.error = "none"]
    ELSE [task EXCEPT !.attempts = @ + 1, !.calls = @ + 1, !.pc = "calling",
                      !.status = "IN_FLIGHT", !.error = "none"]

\* the queue hands its oldest waiting task to a free slot
QueueStart(t) ==
    /\ t \in Queued
    /\ \A u \in Queued : t <= u
    /\ SlotFree(Running, concurrent)
    /\ tasks' = [tasks EXCEPT ![t] = BeginAttempt(@, variant)]
    /\ mutexQueue' = IF variant = "threshold" THEN Append(mutexQueue, t) ELSE mutexQueue
    /\ UNCHANGED <<batcherVars, storeVars, runVars, pureVars, exhaustedBefore, variant, concurrent, lens, par, doc, chapterPc, retryRound, mutexHeld,
                   glossary, mergeLog>>

\* glossaryMutex passes to the task that waited longest
MutexAcquire ==
    /\ mutexQueue # <<>>
    /\ MutexFree(mutexHeld)
    /\ mutexHeld' = mutexHeld \cup {Head(mutexQueue)}
    /\ mutexQueue' = Tail(mutexQueue)
    /\ tasks' = [tasks EXCEPT ![Head(mutexQueue)].pc =
                    IF @ = "snapWait" THEN "snapHeld" ELSE "mergeHeld"]
    /\ UNCHANGED <<batcherVars, storeVars, runVars, pureVars, exhaustedBefore, variant, concurrent, lens, par, doc, chapterPc, retryRound, glossary,
                   mergeLog>>

\* runExclusive(() => getGlossaryPrompt()), the prompt, and the call of callAI
Snapshot(t) ==
    /\ t \in DOMAIN tasks
    /\ tasks[t].pc = "snapHeld"
    /\ t \in mutexHeld
    /\ tasks' = [tasks EXCEPT ![t].snap = getGlossaryPrompt(glossary),
                              ![t].snapMerges = Len(mergeLog),
                              ![t].calls = @ + 1,
                              ![t].pc = "calling"]
    /\ mutexHeld' = mutexHeld \ {t}
    /\ UNCHANGED <<batcherVars, storeVars, runVars, pureVars, exhaustedBefore, variant, concurrent, lens, par, doc, chapterPc, retryRound, mutexQueue,
                   glossary, mergeLog>>

\* the catch branch with the error e ("transport": callAI threw, "format": the
\* response was rejected): the task gives up after the last attempt and hands e
\* to cb, else it backs off
FailAttempt(t, e) ==
    IF AttemptsExhausted(tasks[t].attempts)
    THEN /\ doc' = IF variant = "threshold" THEN StripBatch(doc, tasks[t].batch) ELSE doc
         /\ tasks' = [tasks EXCEPT ![t].fails = @ + 1, ![t].snap = <<>>,
                                   ![t].snapMerges = 0, ![t].error = e,
                                   ![t].status = "EXHAUSTED", ![t].pc = "done"]
    ELSE /\ doc' = doc
         /\ tasks' = [tasks EXCEPT ![t].fails = @ + 1, ![t].snap = <<>>,
                                   ![t].snapMerges = 0, ![t].error = e,
                                   ![t].status = "FAILED", ![t].pc = "backoff"]

\* callAI settles with r and the worker resumes, threshold generation: the
\* response is parsed, validated and applied, up to the next await or to cb
ReplyThreshold(t, r) ==
    /\ t \in DOMAIN tasks
    /\ variant = "threshold"
    /\ tasks[t].pc = "calling"
    /\ r \in Responses(tasks[t].batch, variant)
    /\ IF r.kind = "error" \/ FormatInvalid(r.found, tasks[t].batch)
       THEN FailAttempt(t, IF r.kind = "error" THEN "transport" ELSE "format")
            /\ UNCHANGED mutexQueue
       ELSE /\ doc' = ApplyValidated(doc, par, tasks[t].batch, r.found)
            /\ IF Parses(r.gloss) /\ Len(r.gloss.terms) > 0
               THEN /\ tasks' = [tasks EXCEPT ![t].terms = r.gloss.terms,
                                              ![t].snap = <<>>, ![t].snapMerges = 0,
                                              ![t].pc = "mergeWait"]
                    /\ mutexQueue' = Append(mutexQueue, t)
               ELSE /\ tasks' = [tasks EXCEPT ![t].snap = <<>>, ![t].snapMerges = 0,
                                              ![t].status = "SUCCESS", ![t].pc = "done"]
                    /\ UNCHANGED mutexQueue
    /\ UNCHANGED <<batcherVars, storeVars, runVars, pureVars, exhaustedBefore, variant, concurrent, lens, par, chapterPc, retryRound, mutexHeld,
                   glossary, mergeLog>>

\* callAI settles with r and the worker resumes, rounds generation
ReplyRounds(t, r) ==
    /\ t \in DOMAIN tasks
    /\ variant = "rounds"
    /\ tasks[t].pc = "calling"
    /\ r \in Responses(tasks[t].batch, variant)
    /\ IF r.kind = "error"
       THEN FailAttempt(t, "transport")
       ELSE /\ doc' = ApplyRecovered(doc, par, tasks[t].batch, r.found)
            /\ tasks' = [tasks EXCEPT ![t].status = "SUCCESS", ![t].pc = "done"]
    /\ UNCHANGED <<batcherVars, storeVars, runVars, pureVars, exhaustedBefore, variant, concurrent, lens, par, chapterPc, retryRound, mutexHeld,
                   mutexQueue, glossary, mergeLog>>

\* runExclusive(() => Object.assign(RUNTIME_GLOSSARY, newTerms)), then cb(null)
Merge(t) ==
    /\ t \in DOMAIN tasks
    /\ tasks[t].pc = "mergeHeld"
    /\ t \in mutexHeld
    /\ glossary' = ObjectAssign(glossary, tasks[t].terms)
    /\ mergeLog' = Append(mergeLog, tasks[t].terms)
    /\ tasks' = [tasks EXCEPT ![t].status = "SUCCESS", ![t].pc = "done"]
    /\ mutexHeld' = mutexHeld \ {t}
    /\ UNCHANGED <<batcherVars, storeVars, runVars, pureVars, exhaustedBefore, variant, concurrent, lens, par, doc, chapterPc,
                   retryRound, mutexQueue>>

\* the backoff timer of 2 s fires and the loop starts its next iteration
BackoffElapsed(t) ==
    /\ t \in DOMAIN tasks
    /\ tasks[t].pc = "backoff"
    /\ tasks' = [tasks EXCEPT ![t] = BeginAttempt(@, variant)]
    /\ mutexQueue' = IF variant = "threshold" THEN Append(mutexQueue, t) ELSE mutexQueue
    /\ UNCHANGED <<batcherVars, storeVars, runVars, pureVars, exhaustedBefore, variant, concurrent, lens, par, doc, chapterPc, retryRound, mutexHeld,
                   glossary, mergeLog>>

TaskIds == 1..NumNodes

AnyResponse ==
    {ErrorResponse} \cup
    {[kind |-> "text", found |-> f, gloss |-> g] :
        f \in SUBSET (1..NumNodes), g \in GlossaryBlocks \cup {ArrayBlock}}

Next ==
    \/ Extract
    \/ ReturnThreshold
    \/ RetryRound
    \/ StripAndReturn
    \/ \E t \in TaskIds : QueueStart(t)
    \/ MutexAcquire
    \/ \E t \in TaskIds : Snapshot(t)
    \/ \E t \in TaskIds, r \in AnyResponse : ReplyThreshold(t, r)
    \/ \E t \in TaskIds, r \in AnyResponse : ReplyRounds(t, r)
    \/ \E t \in TaskIds : Merge(t)
    \/ \E t \in TaskIds : BackoffElapsed(t)

Spec == Init /\ [][Next]_vars

\* the same run under the scheduling of the event loop: a continuation that is
\* ready is run, a timer that was set fires, the queue starts a pushed task when
\* a slot is free, and every call made to the service returns or fails
SpecFair == Spec /\ WF_vars(Next)

QueueIdle ==
    /\ variant = "threshold" /\ concurrent = 0 /\ lens = <<>> /\ par = <<>>
    /\ doc = <<>> /\ chapterPc = "idle" /\ retryRound = 0 /\ tasks = <<>>
    /\ mutexHeld = {} /\ mutexQueue = <<>> /\ glossary = <<>> /\ mergeLog = <<>>
    /\ exhaustedBefore = {}

(* ----------------------- the batcher on its own ------------------------ *)
\* content lengths of the node lists handed to the batcher
BatcherLens == {1, 1000, 2500, 4000, 5001}

InitBatcher ==
    /\ bLens \in UNION {[1..n -> BatcherLens] : n \in 0..MaxListLen}
    /\ bLimit \in {BATCH_SIZE_LIMIT(v) : v \in Variants}
    /\ bRan = FALSE
    /\ bOut = <<>>
    /\ QueueIdle
    /\ StoreIdle
    /\ RunIdle
    /\ PureIdle

\* the batching loop over the list node_1 .. node_n
RunBatcher ==
    /\ bRan = FALSE
    /\ bOut' = MakeBatches([i \in 1..Len(bLens) |-> i], bLens, bLimit)
    /\ bRan' = TRUE
    /\ UNCHANGED <<bLens, bLimit, queueVars, storeVars, runVars, pureVars>>

NextBatcher == RunBatcher

SpecBatcher == InitBatcher /\ [][NextBatcher]_vars

(* -------------------- the glossary store on its own -------------------- *)
\* a store that earlier merges filled with n terms, one term per merge
Prefilled(n) == [i \in 1..n |-> [k |-> StrKey(i), v |-> 0]]

\* the term lists (JSON objects of a glossary block) merged into the store
StoreTerms ==
    { <<[k |-> StrKey(1001), v |-> 1]>>,
      <<[k |-> StrKey(1001), v |-> 2], [k |-> StrKey(1002), v |-> 2]>>,
      <<[k |-> StrKey(1), v |-> 9]>>,
      <<[k |-> IdxKey(7), v |-> 1]>>,
      <<[k |-> IdxKey(3), v |-> 1], [k |-> StrKey(1002), v |-> 3]>> }

RECURSIVE NewKeys(_, _)
\* the keys of terms that g does not hold yet, in the order terms lists them
NewKeys(g, terms) ==
    IF terms = <<>> THEN <<>>
    ELSE (IF HasKey(g, Head(terms).k) THEN <<>> ELSE <<Head(terms).k>>)
         \o NewKeys(g, Tail(terms))

InitStore ==
    /\ gStore \in {Prefilled(n) : n \in {0, GLOSSARY_WINDOW - 1, GLOSSARY_WINDOW}}
    /\ gCreated = [i \in DOMAIN gStore |-> gStore[i].k]
    /\ gLast = [op |-> "none", terms |-> <<>>, before |-> <<>>]
    /\ gSnap = <<>>
    /\ gOps = 0
    /\ QueueIdle
    /\ BatcherIdle
    /\ RunIdle
    /\ PureIdle

\* glossaryMutex.runExclusive(() => Object.assign(RUNTIME_GLOSSARY, newTerms))
StoreMerge(terms) ==
    /\ gOps < MaxGlossaryOps
    /\ gStore' = ObjectAssign(gStore, terms)
    /\ gCreated' = gCreated \o NewKeys(gStore, terms)
    /\ gLast' = [op |-> "merge", terms |-> terms, before |-> gStore]
    /\ gOps' = gOps + 1
    /\ UNCHANGED <<gSnap, queueVars, batcherVars, runVars, pureVars>>

\* glossaryMutex.runExclusive(() => getGlossaryPrompt())
StoreSnapshot ==
    /\ gOps < MaxGlossaryOps
    /\ gSnap' = getGlossaryPrompt(gStore)
    /\ gLast' = [op |-> "snapshot", terms |-> <<>>, before |-> gStore]
    /\ gOps' = gOps + 1
    /\ UNCHANGED <<gStore, gCreated, queueVars, batcherVars, runVars, pureVars>>

NextStore ==
    \/ \E terms \in StoreTerms : StoreMerge(terms)
    \/ StoreSnapshot

SpecStore == InitStore /\ [][NextStore]_vars

(* ------------------------------ one run -------------------------------- *)
Builds == {"part_000", "part_001", "epubtest"}

AllChapterIds == <<"c1", "c2", "c3", "c4">>
\* the books a run is started on
Books == {SubSeq(AllChapterIds, 1, n) : n \in 1..NumChapters}

\* an id the planner response names that is the id of no chapter; JSON null; undefined
UnknownId == "x"
NullId == "null"
Undefined == "undefined"

\* result.order.filter((id) => chapterMap.has(id))
FilterKnown(order, known) == SelectSeq(order, LAMBDA id : id \in known)

RECURSIVE PlanMap(_, _, _, _, _, _)
\* .map((id) => { ch = chapterMap.get(id); if (id === result.tocId) ch.isTOC = true;
\*                chapterMap.delete(id); return ch; })
\* inMap: the ids still in the local chapterMap; marks: the chapters marked isTOC;
\* markToc: the build marks (part_000 does not)
PlanMap(rest, inMap, marks, out, tocId, markToc) ==
    IF rest = <<>>
    THEN [threw |-> FALSE, out |-> out, inMap |-> inMap, marks |-> marks]
    ELSE LET id == Head(rest)
             ch == IF id \in inMap THEN id ELSE Undefined
         IN IF markToc /\ id = tocId /\ ch = Undefined
            THEN [threw |-> TRUE, out |-> out, inMap |-> inMap, marks |-> marks]
            ELSE PlanMap(Tail(rest), inMap \ {id},
                         IF markToc /\ id = tocId THEN marks \cup {id} ELSE marks,
                         Append(out, ch), tocId, markToc)

\* the body of the try block of planTranslationOrder on a parsed response r
PlanResult(chs, r, markToc) ==
    LET m == PlanMap(FilterKnown(r.order, Range(chs)), Range(chs), {}, <<>>,
                     r.tocId, markToc)
    IN [threw |-> m.threw, marks |-> m.marks,
        sorted |-> m.out \o SelectSeq(chs, LAMBDA id : id \in m.inMap)]

PlanOrders(chs) ==
    UNION {[1..n -> Range(chs) \cup {UnknownId}] : n \in 0..MaxOrderLen}

\* what the service can answer the planner: a failure of the call, a text that
\* is no JSON, a JSON value without an order array, or an object with an order
\* array and a tocId
PlanResponses(chs) ==
    {[kind |-> k, order |-> <<>>, tocId |-> NullId] :
        k \in {"error", "unparsable", "illformed"}} \cup
    {[kind |-> "json", order |-> o, tocId |-> t] :
        o \in PlanOrders(chs), t \in Range(chs) \cup {UnknownId, NullId}}

\* the step of main that follows the planner
AfterPlanMutSkip(b) == "normalize"

AfterPlan(b) == IF b = "part_001" THEN "glossary" ELSE "translate"

\* sortedChapters.slice(0, TEST_MODE_LIMIT || sortedChapters.length)
ToProcess(sorted, lim) ==
    SubSeq(sorted, 1, IF lim = 0 \/ lim > Len(sorted) THEN Len(sorted) ELSE lim)

\* TEST_MODE_LIMIT: null (0) or 1
TestLimits == {0, 1}

InitRun ==
    /\ build \in Builds
    /\ chapters \in Books
    /\ testLimit \in TestLimits
    /\ headings \in BOOLEAN
    /\ runPc = "load"
    /\ planCalls = 0 /\ planFails = 0 /\ plan = NoPlan
    /\ isTOC = {}
    /\ cur = 1 /\ openTasks = 0 /\ chapterRound = 0 /\ submitted = <<>>
    /\ html = [c \in Range(chapters) |-> "input"]
    /\ normCalls = 0 /\ normFails = 0 /\ corrections = "empty" /\ normDone = FALSE
    /\ retargeted = {} /\ saveCalls = 0 /\ saved = {} /\ fatalCause = "none"
    /\ applied = <<>>
    /\ QueueIdle
    /\ BatcherIdle
    /\ StoreIdle
    /\ PureIdle

\* new AdmZip(inputPath), EPub.createAsync(inputPath), chapterMap
Load(ok) ==
    /\ runPc = "load"
    /\ IF ok THEN runPc' = "plan" /\ UNCHANGED fatalCause
             ELSE runPc' = "fatal" /\ fatalCause' = "load"
    /\ UNCHANGED <<queueVars, batcherVars, storeVars, pureVars, applied, build, chapters, testLimit,
                   headings, planCalls, planFails, plan, isTOC, cur,
                   openTasks, chapterRound, submitted, html, normCalls, normFails,
                   corrections, normDone, retargeted, saveCalls, saved>>

\* one attempt of planTranslationOrder: callAI settles with r
PlanReply(r) ==
    /\ runPc = "plan"
    /\ r \in PlanResponses(chapters)
    /\ planCalls' = planCalls + 1
    /\ LET res == PlanResult(chapters, r, build # "part_000")
           failed == r.kind # "json" \/ res.threw
       IN /\ isTOC' = IF r.kind = "json" THEN isTOC \cup res.marks ELSE isTOC
          /\ IF ~failed
             THEN /\ plan' = [sorted |-> res.sorted,
                              tocId |-> IF build = "part_000" THEN NullId ELSE r.tocId]
                  /\ planFails' = planFails
                  /\ runPc' = AfterPlan(build)
             ELSE /\ planFails' = planFails + 1
                  /\ IF build = "part_000" \/ planFails + 1 >= PLAN_ATTEMPTS
                     THEN /\ plan' = [sorted |-> chapters, tocId |-> NullId]
                          /\ runPc' = AfterPlan(build)
                     ELSE /\ runPc' = "planBackoff"
                          /\ UNCHANGED plan
    /\ UNCHANGED <<queueVars, batcherVars, storeVars, pureVars, applied, build, chapters, testLimit,
                   headings, cur, openTasks, chapterRound, submitted, html,
                   normCalls, normFails, corrections, normDone, retargeted,
                   saveCalls, saved, fatalCause>>

\* the 2 s wait of the planner ends
PlanBackoffElapsed ==
    /\ runPc = "planBackoff"
    /\ runPc' = "plan"
    /\ UNCHANGED <<queueVars, batcherVars, storeVars, pureVars, applied, build, chapters, testLimit,
                   headings, planCalls, planFails, plan, isTOC, cur,
                   openTasks, chapterRound, submitted, html, normCalls, normFails,
                   corrections, normDone, retargeted, saveCalls, saved, fatalCause>>

\* generateInitialGlossary: whatever the service does is caught
GenerateGlossary(ok) ==
    /\ runPc = "glossary"
    /\ ok \in BOOLEAN
    /\ runPc' = "translate"
    /\ UNCHANGED <<queueVars, batcherVars, storeVars, pureVars, applied, build, chapters, testLimit,
                   headings, planCalls, planFails, plan, isTOC, cur,
                   openTasks, chapterRound, submitted, html, normCalls, normFails,
                   corrections, normDone, retargeted, saveCalls, saved, fatalCause>>

\* the head of the loop of performTranslation for chapter i: an undefined
\* element of the plan makes ch.isTOC (ch.title in part_000) throw outside any
\* try; a chapter marked isTOC is skipped; any other chapter is handed to
\* translateHtmlContent, which pushes its first batch set of k tasks
BeginChapter(k) ==
    /\ runPc = "translate"
    /\ cur <= Len(ToProcess(plan.sorted, testLimit))
    /\ k \in 0..MaxTasks
    /\ LET ch == ToProcess(plan.sorted, testLimit)[cur] IN
       IF ch = Undefined
       THEN /\ runPc' = "fatal"
            /\ fatalCause' = "plan"
            /\ UNCHANGED <<cur, openTasks, submitted, html>>
       ELSE IF build # "part_000" /\ ch \in isTOC
       THEN /\ cur' = cur + 1
            /\ UNCHANGED <<runPc, fatalCause, openTasks, submitted, html>>
       ELSE /\ submitted' = Append(submitted, ch)
            /\ UNCHANGED fatalCause
            /\ IF k = 0
               THEN /\ html' = [html EXCEPT ![ch] = "processed"]
                    /\ cur' = cur + 1
                    /\ UNCHANGED <<runPc, openTasks>>
               ELSE /\ openTasks' = k
                    /\ runPc' = "chapter"
                    /\ UNCHANGED <<cur, html>>
    /\ UNCHANGED <<queueVars, batcherVars, storeVars, pureVars, applied, build, chapters,
                   testLimit, headings, planCalls, planFails, plan, isTOC, chapterRound, normCalls, normFails, corrections,
                   normDone, retargeted, saveCalls, saved>>

\* a task of the batch set signals completion (finish or failed)
TaskEnds ==
    /\ runPc = "chapter"
    /\ openTasks > 0
    /\ openTasks' = openTasks - 1
    /\ UNCHANGED <<queueVars, batcherVars, storeVars, pureVars, applied, build, chapters,
                   testLimit, headings, runPc, planCalls, planFails, plan,
                   isTOC, cur, chapterRound, submitted, html,
                   normCalls, normFails, corrections, normDone, retargeted,
                   saveCalls, saved, fatalCause>>

NextRoundMutEarly(k) ==
    /\ runPc = "chapter"
    /\ build # "part_000"
    /\ chapterRound < MAX_RETRY_ROUNDS
    /\ k \in 1..MaxTasks
    /\ openTasks' = k
    /\ chapterRound' = chapterRound + 1
    /\ UNCHANGED <<queueVars, batcherVars, storeVars, pureVars, applied, build, chapters,
                   testLimit, headings, runPc, planCalls, planFails, plan,
                   isTOC, cur, submitted, html, normCalls, normFails,
                   corrections, normDone, retargeted, saveCalls, saved,
                   fatalCause>>

\* the batch set is complete and markers remain: a retry round of k tasks
NextRound(k) ==
    /\ runPc = "chapter"
    /\ openTasks = 0
    /\ build # "part_000"
    /\ chapterRound < MAX_RETRY_ROUNDS
    /\ k \in 1..MaxTasks
    /\ openTasks' = k
    /\ chapterRound' = chapterRound + 1
    /\ UNCHANGED <<queueVars, batcherVars, storeVars, pureVars, applied, build, chapters,
                   testLimit, headings, runPc, planCalls, planFails, plan,
                   isTOC, cur, submitted, html, normCalls, normFails,
                   corrections, normDone, retargeted, saveCalls, saved,
                   fatalCause>>

\* translateHtmlContent returns and the markup is stored under the chapter's id
ChapterReturns ==
    /\ runPc = "chapter"
    /\ openTasks = 0
    /\ html' = [html EXCEPT ![ToProcess(plan.sorted, testLimit)[cur]] = "processed"]
    /\ cur' = cur + 1
    /\ chapterRound' = 0
    /\ runPc' = "translate"
    /\ UNCHANGED <<queueVars, batcherVars, storeVars, pureVars, applied, build, chapters,
                   testLimit, headings, planCalls, planFails, plan, isTOC, openTasks, submitted, normCalls, normFails,
                   corrections, normDone, retargeted, saveCalls, saved,
                   fatalCause>>

\* performTranslation returns
EndTranslation ==
    /\ runPc = "translate"
    /\ cur > Len(ToProcess(plan.sorted, testLimit))
    /\ runPc' = "normalize"
    /\ UNCHANGED <<queueVars, batcherVars, storeVars, pureVars, applied, build, chapters,
                   testLimit, headings, planCalls, planFails, plan, isTOC, cur, openTasks, chapterRound, submitted, html,
                   normCalls, normFails, corrections, normDone, retargeted,
                   saveCalls, saved, fatalCause>>

\* what the service can answer the heading normalization request
NormResponses == {"error", "unparsable", "null", "map"}

\* heading normalization without a request: no chapter holds a heading
NormalizeNothing ==
    /\ runPc = "normalize"
    /\ ~headings
    /\ normDone' = TRUE
    /\ retargeted' = IF build = "part_000" THEN retargeted \cup {"ncx"} ELSE retargeted
    /\ runPc' = IF build = "part_000" THEN "save" ELSE "retarget"
    /\ UNCHANGED <<queueVars, batcherVars, storeVars, pureVars, applied, build, chapters,
                   testLimit, headings, planCalls, planFails, plan, isTOC, cur, openTasks, chapterRound, submitted, html,
                   normCalls, normFails, corrections, saveCalls, saved,
                   fatalCause>>

\* the normalization request settles with r
\*   part_000  one attempt; a failure leaves corrections = {}
\*   part_001  up to 3 attempts
\*   epubtest  the call is outside any try; a response is applied node by node
NormReply(r) ==
    /\ runPc = "normalize"
    /\ headings
    /\ r \in NormResponses
    /\ normCalls' = normCalls + 1
    /\ IF build = "epubtest"
       THEN IF r = "error"
            THEN /\ runPc' = "fatal"
                 /\ fatalCause' = "normalize"
                 /\ UNCHANGED <<normFails, corrections, normDone>>
            ELSE /\ runPc' = "retarget"
                 /\ normDone' = TRUE
                 /\ UNCHANGED <<normFails, corrections, fatalCause>>
       ELSE IF r \in {"error", "unparsable"}
            THEN /\ normFails' = normFails + 1
                 /\ runPc' = IF build = "part_000" \/ normFails + 1 >= NORMALIZE_ATTEMPTS
                             THEN "normApply" ELSE "normBackoff"
                 /\ UNCHANGED <<corrections, normDone, fatalCause>>
            ELSE /\ corrections' = r
                 /\ runPc' = "normApply"
                 /\ UNCHANGED <<normFails, normDone, fatalCause>>
    /\ UNCHANGED <<queueVars, batcherVars, storeVars, pureVars, applied, build, chapters,
                   testLimit, headings, planCalls, planFails, plan, isTOC, cur, openTasks, chapterRound, submitted, html,
                   retargeted, saveCalls, saved>>

\* the 2 s wait of heading normalization ends
NormBackoffElapsed ==
    /\ runPc = "normBackoff"
    /\ runPc' = "normalize"
    /\ UNCHANGED <<queueVars, batcherVars, storeVars, pureVars, applied, build, chapters,
                   testLimit, headings, planCalls, planFails, plan, isTOC, cur, openTasks, chapterRound, submitted, html,
                   normCalls, normFails, corrections, normDone, retargeted,
                   saveCalls, saved, fatalCause>>

\* the loop of part_001 that applies corrections[original] to the headings of
\* every chapter
NormApply ==
    /\ runPc = "normApply"
    /\ build # "part_000"
    /\ IF corrections = "null"
       THEN /\ runPc' = "fatal"
            /\ fatalCause' = "normalize"
            /\ UNCHANGED normDone
       ELSE /\ normDone' = TRUE
            /\ runPc' = "retarget"
            /\ UNCHANGED fatalCause
    /\ UNCHANGED <<queueVars, batcherVars, storeVars, pureVars, applied, build, chapters,
                   testLimit, headings, planCalls, planFails, plan, isTOC, cur, openTasks, chapterRound, submitted, html,
                   normCalls, normFails, corrections, retargeted, saveCalls, saved>>

\* one iteration of the loop of synchronizeHeadings (part_000) over chapterMap;
\* h: the chapter holds a heading. The iteration applies corrections[original]
\* to the headings of the chapter and then, when the chapter has a first
\* heading, rewrites the label of the chapter's navPoint
SynchronizeHeadingsChapter(h) ==
    /\ runPc = "normApply"
    /\ build = "part_000"
    /\ Len(applied) < Len(chapters)
    /\ h \in BOOLEAN
    /\ (Len(applied) + 1 = Len(chapters) /\ TRUE \notin Range(applied)) => h
    /\ IF corrections = "null" /\ h
       THEN /\ runPc' = "fatal"
            /\ fatalCause' = "normalize"
            /\ UNCHANGED <<applied, normDone, retargeted>>
       ELSE /\ applied' = Append(applied, h)
            /\ normDone' = (Len(applied) + 1 = Len(chapters))
            /\ retargeted' = IF h THEN retargeted \cup {"ncx"} ELSE retargeted
            /\ runPc' = IF Len(applied) + 1 = Len(chapters) THEN "save" ELSE "normApply"
            /\ UNCHANGED fatalCause
    /\ UNCHANGED <<queueVars, batcherVars, storeVars, pureVars, build, chapters,
                   testLimit, headings, planCalls, planFails, plan, isTOC, cur, openTasks, chapterRound, submitted, html,
                   normCalls, normFails, corrections, saveCalls, saved>>

\* synchronizeTocHtml: anything thrown inside is caught
SynchronizeTocHtml ==
    /\ runPc = "retarget"
    /\ retargeted' = retargeted \cup {"toc"}
    /\ runPc' = "retargetNcx"
    /\ UNCHANGED <<queueVars, batcherVars, storeVars, pureVars, applied, build, chapters,
                   testLimit, headings, planCalls, planFails, plan, isTOC, cur, openTasks, chapterRound, submitted, html,
                   normCalls, normFails, corrections, normDone, saveCalls,
                   saved, fatalCause>>

\* synchronizeNcx: anything thrown inside is caught
SynchronizeNcx ==
    /\ runPc = "retargetNcx"
    /\ retargeted' = retargeted \cup {"ncx"}
    /\ runPc' = "save"
    /\ UNCHANGED <<queueVars, batcherVars, storeVars, pureVars, applied, build, chapters,
                   testLimit, headings, planCalls, planFails, plan, isTOC, cur, openTasks, chapterRound, submitted, html,
                   normCalls, normFails, corrections, normDone, saveCalls,
                   saved, fatalCause>>

\* saveEpub: the markup of every chapter of chapterMap is handed to the archive,
\* then the archive is written
SaveEpub(ok) ==
    /\ runPc = "save"
    /\ ok \in BOOLEAN
    /\ saveCalls' = saveCalls + 1
    /\ saved' = Range(chapters)
    /\ IF ok THEN runPc' = "saved" /\ UNCHANGED fatalCause
             ELSE runPc' = "fatal" /\ fatalCause' = "write"
    /\ UNCHANGED <<queueVars, batcherVars, storeVars, pureVars, applied, build, chapters,
                   testLimit, headings, planCalls, planFails, plan, isTOC, cur, openTasks, chapterRound, submitted, html,
                   normCalls, normFails, corrections, normDone, retargeted>>

AllPlanResponses == PlanResponses(SubSeq(AllChapterIds, 1, NumChapters))

NextRun ==
    \/ \E ok \in BOOLEAN : Load(ok)
    \/ \E r \in AllPlanResponses : PlanReply(r)
    \/ PlanBackoffElapsed
    \/ \E ok \in BOOLEAN : GenerateGlossary(ok)
    \/ \E k \in 0..MaxTasks : BeginChapter(k)
    \/ TaskEnds
    \/ \E k \in 1..MaxTasks : NextRound(k)
    \/ ChapterReturns
    \/ EndTranslation
    \/ NormalizeNothing
    \/ \E r \in NormResponses : NormReply(r)
    \/ NormBackoffElapsed
    \/ NormApply
    \/ \E h \in BOOLEAN : SynchronizeHeadingsChapter(h)
    \/ SynchronizeTocHtml
    \/ SynchronizeNcx
    \/ \E ok \in BOOLEAN : SaveEpub(ok)

SpecRun == InitRun /\ [][NextRun]_vars

(* ------------------------ heading normalization ------------------------ *)
\* the trimmed heading texts of the documents and of the CorrectionMap
HeadingTexts == {"ha", "hb", "hc"}

\* corrections[original] || original: a key that is absent (undefined) or whose
\* value is the empty string leaves the heading as it is
Corrected(corr, original) ==
    IF corr[original] \in {Undefined, ""} THEN original ELSE corr[original]

\* the loop over the headings of a document: a heading whose corrected text
\* differs from its text is rewritten
ApplyCorrections(hs, corr) == [i \in DOMAIN hs |-> Corrected(corr, hs[i])]

\* the maps JSON.parse can hand back for the headings
CorrectionMaps == [HeadingTexts -> HeadingTexts \cup {Undefined, ""}]

InitHeadings ==
    /\ hDoc \in UNION {[1..n -> HeadingTexts] : n \in 0..MaxHeadings}
    /\ hMap \in CorrectionMaps
    /\ hPass = 0
    /\ hOnce = <<>>
    /\ hTwice = <<>>
    /\ AnchorsIdle
    /\ UnitIdle
    /\ QueueIdle
    /\ BatcherIdle
    /\ StoreIdle
    /\ RunIdle

\* the map is applied to the headings of the document
ApplyFirst ==
    /\ hPass = 0
    /\ hOnce' = ApplyCorrections(hDoc, hMap)
    /\ hPass' = 1
    /\ UNCHANGED <<hDoc, hMap, hTwice, anchorVars, unitVars, queueVars, batcherVars, storeVars,
                   runVars>>

\* the same map is applied to the result
ApplySecond ==
    /\ hPass = 1
    /\ hTwice' = ApplyCorrections(hOnce, hMap)
    /\ hPass' = 2
    /\ UNCHANGED <<hDoc, hMap, hOnce, anchorVars, unitVars, queueVars, batcherVars, storeVars,
                   runVars>>

NextHeadings == ApplyFirst \/ ApplySecond

SpecHeadings == InitHeadings /\ [][NextHeadings]_vars

(* ---------------------- cross-reference retargeting -------------------- *)
\* A text is the sequence of its non-blank parts; <<>> is the empty string.
\* The chapter a reference points into, seen from the element with the id "s":
\*   hasId      the chapter holds an element with that id
\*   direct     the text nodes that are children of the element
\*   hasNested  the element contains a heading
\*   nested     the text of the first heading inside the element
\*   other      the text of the other descendants of the element
\*   sibling    the text of the first h1-h4 that follows the element as a sibling
\*   ancestor   the text of the closest heading around the element
\*   first      the text of the first heading (h1-h3) of the chapter
Empty == <<>>

Targets ==
    {t \in [hasId : BOOLEAN, direct : {Empty, <<"D">>}, hasNested : BOOLEAN,
            nested : {Empty, <<"N">>}, other : {Empty, <<"P">>},
            sibling : {Empty, <<"S">>}, ancestor : {Empty, <<"A">>},
            first : {Empty, <<"F">>}] :
        ~t.hasNested => t.nested = Empty}

\* the table-of-contents chapter as the target of a reference
TocChapter ==
    [hasId |-> FALSE, direct |-> Empty, hasNested |-> FALSE, nested |-> Empty,
     other |-> Empty, sibling |-> Empty, ancestor |-> Empty, first |-> <<"T">>]

\* file names of references: a chapter, the table-of-contents chapter, no chapter
RefFiles == {"f1", "toc", "nofile"}
\* fragments of references: none, the id "s"
RefAnchors == {"", "s"}

RefLists ==
    UNION {[1..n -> [file : RefFiles, anchor : RefAnchors, label : {<<"old">>}]] :
              n \in 0..MaxRefs}

\* $el.text(): the text of the element and of everything inside it
ElementText(t) == t.direct \o t.nested \o t.other

\* getTitleById($doc, id)
getTitleById(t, id) ==
    IF id = "" THEN Empty
    ELSE IF ~t.hasId THEN Empty
    ELSE LET text == ElementText(t)
             text2 == IF text # Empty THEN text
                      ELSE IF t.hasNested THEN t.nested ELSE t.sibling
         IN IF text2 # Empty THEN text2 ELSE t.ancestor

\* getTitleById($targetDoc, anchor) || $targetDoc("h1, h2, h3").first().text().trim()
ResolveTitle(t, anchor) ==
    IF getTitleById(t, anchor) # Empty THEN getTitleById(t, anchor) ELSE t.first

\* $a.text(title) / $navPoint.find("navLabel > text").first().text(title)
SetLabelMutHref(ref, title) == [ref EXCEPT !.label = title, !.anchor = ""]

SetLabel(ref, title) == [ref EXCEPT !.label = title]

\* allChapters.find((ch) => path.basename(ch.href) === fileName)
HasTarget(ref) == ref.file \in {"f1", "toc"}

TargetOf(ref, t) == IF ref.file = "toc" THEN TocChapter ELSE t

\* the callback of the each over the references: pass "toc" leaves a reference
\* to the table-of-contents chapter itself alone
RetargetRef(ref, t, pass) ==
    IF HasTarget(ref) /\ ~(pass = "toc" /\ ref.file = "toc")
          /\ ResolveTitle(TargetOf(ref, t), ref.anchor) # Empty
    THEN SetLabel(ref, ResolveTitle(TargetOf(ref, t), ref.anchor))
    ELSE ref

Retarget(refs, t, pass) == [i \in DOMAIN refs |-> RetargetRef(refs[i], t, pass)]

\* the callback of part_001, which has no fragment lookup: the first heading of
\* the chapter whose file name the href includes
RetargetRefFirst(ref, t) ==
    IF HasTarget(ref) /\ ref.file # "toc" /\ TargetOf(ref, t).first # Empty
    THEN SetLabel(ref, TargetOf(ref, t).first)
    ELSE ref

InitAnchors ==
    /\ aRefs \in RefLists
    /\ aTarget \in Targets
    /\ aPass = "none"
    /\ aOut = <<>>
    /\ HeadingsIdle
    /\ UnitIdle
    /\ QueueIdle
    /\ BatcherIdle
    /\ StoreIdle
    /\ RunIdle

\* synchronizeTocHtml over the references of the table-of-contents chapter
RetargetToc ==
    /\ aPass = "none"
    /\ aOut' = Retarget(aRefs, aTarget, "toc")
    /\ aPass' = "toc"
    /\ UNCHANGED <<aRefs, aTarget, headVars, unitVars, queueVars, batcherVars, storeVars, runVars>>

\* synchronizeNcx over the navPoints of the navigation resource
RetargetNcx ==
    /\ aPass = "none"
    /\ aOut' = Retarget(aRefs, aTarget, "ncx")
    /\ aPass' = "ncx"
    /\ UNCHANGED <<aRefs, aTarget, headVars, unitVars, queueVars, batcherVars, storeVars, runVars>>

\* synchronizeTocHtml of part_001
RetargetTocFirst ==
    /\ aPass = "none"
    /\ aOut' = [i \in DOMAIN aRefs |-> RetargetRefFirst(aRefs[i], aTarget)]
    /\ aPass' = "tocFirst"
    /\ UNCHANGED <<aRefs, aTarget, headVars, unitVars, queueVars, batcherVars, storeVars, runVars>>

NextAnchors == RetargetToc \/ RetargetNcx \/ RetargetTocFirst

SpecAnchors == InitAnchors /\ [][NextAnchors]_vars

(* ------------- one batch set applied in every completion order --------- *)
\* The chapter holds NumNodes extracted elements, all still marked when the
\* batch set is pushed, each in a task of its own. The response to a task is
\*   found  the wrapper <node id="node_n"> of the node is recovered
\*   echo   the marked elements of the request content whose data-t-id
\*          attribute the recovered replacement carries
\* The content of a node is $el.html(): in the first batch set it was read
\* before any element inside the node was tagged; in a retry round it is
\* $(el).html() of the still marked element and carries the data-t-id
\* attribute of every marked element inside it.
ContentMarkers(p, n, round) ==
    IF round = 0 THEN {} ELSE Descendants(p, n)

TaskResponses(p, n, round) ==
    {[found |-> FALSE, echo |-> {}]} \cup
    {[found |-> TRUE, echo |-> e] : e \in SUBSET ContentMarkers(p, n, round)}

\* $parent(`[data-t-id="${n}"]`).html(replacement).removeAttr("data-t-id") with
\* a replacement that carries the markers of echo: the children of every
\* element the selector matches are replaced by the parsed replacement
ReplaceHtmlWith(d, p, n, echo) ==
    IF Selected(d, n)
    THEN [i \in DOMAIN d |->
            IF i = n THEN [exists |-> TRUE, marker |-> FALSE, text |-> n]
            ELSE IF i \in Descendants(p, n)
                 THEN IF i \in echo
                      THEN [exists |-> TRUE, marker |-> TRUE, text |-> n]
                      ELSE [exists |-> FALSE, marker |-> FALSE, text |-> 0]
                 ELSE d[i]]
    ELSE d

\* what the task of node n does to the document when its call settles for the
\* last time: the loop over its batch, or the catch branch of the last attempt
CompleteTask(d, p, v, n, resp) ==
    IF resp.found THEN ReplaceHtmlWith(d, p, n, resp.echo)
    ELSE IF v = "threshold" THEN RemoveAttr(d, n)
    ELSE d

RECURSIVE CompleteInOrder(_, _, _, _, _)
CompleteInOrder(d, p, v, order, resp) ==
    IF order = <<>> THEN d
    ELSE CompleteInOrder(CompleteTask(d, p, v, Head(order), resp[Head(order)]),
                         p, v, Tail(order), resp)

\* the document when the batch set is pushed: text 0 is the input's markup
MarkedDoc(n) == [i \in 1..n |-> [exists |-> TRUE, marker |-> TRUE, text |-> 0]]

\* the nestings of NumNodes elements numbered in document order
AllNestings == {p \in [1..NumNodes -> 0..NumNodes] : \A n \in 1..NumNodes : p[n] < n}

InitReintegrate ==
    /\ iVariant \in Variants
    /\ iPar \in AllNestings
    /\ iRound \in IF iVariant = "threshold" THEN {0} ELSE 0..MAX_RETRY_ROUNDS
    /\ iResp \in {r \in [1..NumNodes -> UNION {TaskResponses(iPar, n, iRound) : n \in 1..NumNodes}] :
                     \A n \in 1..NumNodes : r[n] \in TaskResponses(iPar, n, iRound)}
    /\ iDoc = MarkedDoc(NumNodes)
    /\ iOrder = <<>>
    /\ iPc = "await"
    /\ ApplyIdle
    /\ HeadingsIdle
    /\ AnchorsIdle
    /\ ExtractIdle
    /\ CallIdle
    /\ QueueIdle
    /\ BatcherIdle
    /\ StoreIdle
    /\ RunIdle

\* the task of node n completes
Complete(n) ==
    /\ iPc = "await"
    /\ n \in 1..NumNodes
    /\ n \notin Range(iOrder)
    /\ iDoc' = CompleteTask(iDoc, iPar, iVariant, n, iResp[n])
    /\ iOrder' = Append(iOrder, n)
    /\ UNCHANGED <<iVariant, iPar, iRound, iResp, iPc, headVars, anchorVars, applyVars, extractVars, callVars,
                   queueVars, batcherVars, storeVars, runVars>>

\* Promise.all resolves: the threshold generation returns the document; the
\* rounds generation pushes a further round when a marker is left and a round
\* remains, else it strips the markers and returns the document
SetComplete ==
    /\ iPc = "await"
    /\ Len(iOrder) = NumNodes
    /\ IF iVariant = "threshold"
       THEN iPc' = "returned" /\ iDoc' = iDoc
       ELSE IF iRound + 1 <= MAX_RETRY_ROUNDS /\ MarkedNodes(iDoc) # <<>>
            THEN iPc' = "next" /\ iDoc' = iDoc
            ELSE iPc' = "returned" /\ iDoc' = RemoveAllAttr(iDoc)
    /\ UNCHANGED <<iVariant, iPar, iRound, iResp, iOrder, headVars, anchorVars, applyVars, extractVars, callVars,
                   queueVars, batcherVars, storeVars, runVars>>

NextReintegrate ==
    \/ \E n \in 1..NumNodes : Complete(n)
    \/ SetComplete

SpecReintegrate == InitReintegrate /\ [][NextReintegrate]_vars

(* ------------------------- the extraction pass ------------------------- *)
\* The markup of a chapter is a sequence of elements in document order. An
\* element of the markup has a tag and an inner markup:
\*   "pair"    <x></x>            "closed"  <x/>
\*   "blank"   white space only   "markup"  a childless element only, as <br/>
\*   "text"    text
\* An element of the document has a tag, its children and its data-t-id
\* attribute (NoMarker: none):
\*   "none"    no child; "blank", "markup", "text" as above
ElemTags == {"p", "li", "div"}
InnerMarkups == {"pair", "closed", "blank", "markup", "text"}
NoMarker == -1

\* $("p, li, h1, h2, h3, h4, h5, h6, caption, title")
SelectorTags == {"p", "li"}

Markups ==
    UNION {[1..n -> [tag : ElemTags, inner : InnerMarkups]] : n \in 0..MaxElems}

\* cheerio.load(htmlContent, {xmlMode: true, decodeEntities: false})
Parse(text) ==
    [i \in DOMAIN text |->
        [tag |-> text[i].tag,
         children |-> IF text[i].inner \in {"pair", "closed"} THEN "none" ELSE text[i].inner,
         marker |-> NoMarker]]

\* $.html() in xmlMode: an element without children is written <x/>
Serialize(d) ==
    [i \in DOMAIN d |->
        [tag |-> d[i].tag,
         inner |-> IF d[i].children = "none" THEN "closed" ELSE d[i].children,
         marker |-> d[i].marker]]

\* htmlContent as $.html() would have to return it: no data-t-id on any element
Unmarked(text) ==
    [i \in DOMAIN text |-> [tag |-> text[i].tag, inner |-> text[i].inner, marker |-> NoMarker]]

\* the index i the callback of each gets for element n: its place among the
\* elements the selector matches, from 0
SelectionIndexMutCount(d, n) == Cardinality({m \in 1..(n - 1) : d[m].tag \in SelectorTags /\ d[m].children = "text"})

SelectionIndex(d, n) == Cardinality({m \in 1..(n - 1) : d[m].tag \in SelectorTags})

\* $el.html().trim() is not the empty string
HasContentMutBlank(el) == el.children # "none"

HasContent(el) == el.children \notin {"none", "blank"}

Eligible(d, n) == d[n].tag \in SelectorTags /\ HasContent(d[n])

RECURSIVE ExtractFrom(_, _)
\* the each loop from element n on: the nodes pushed to nodesToTranslate
ExtractFrom(d, n) ==
    IF n > Len(d) THEN <<>>
    ELSE (IF Eligible(d, n) THEN <<[id |-> SelectionIndex(d, n), elem |-> n]>> ELSE <<>>)
         \o ExtractFrom(d, n + 1)

\* $el.attr("data-t-id", nodeId) on every element the loop pushes
TagEligible(d) ==
    [n \in DOMAIN d |->
        IF Eligible(d, n) THEN [d[n] EXCEPT !.marker = SelectionIndex(d, n)] ELSE d[n]]

InitExtract ==
    /\ eIn \in Markups
    /\ eDoc = <<>>
    /\ eNodes = <<>>
    /\ ePc = "load"
    /\ ePushed = 0
    /\ eOut = <<>>
    /\ ApplyIdle
    /\ HeadingsIdle
    /\ AnchorsIdle
    /\ ReintIdle
    /\ CallIdle
    /\ QueueIdle
    /\ BatcherIdle
    /\ StoreIdle
    /\ RunIdle

\* const $ = cheerio.load(htmlContent, ...)
LoadMarkup ==
    /\ ePc = "load"
    /\ eDoc' = Parse(eIn)
    /\ ePc' = "extract"
    /\ UNCHANGED <<eIn, eNodes, ePushed, eOut, headVars, anchorVars, applyVars, reintVars, callVars,
                   queueVars, batcherVars, storeVars, runVars>>

\* the each loop of the extractor
ExtractNodes ==
    /\ ePc = "extract"
    /\ eNodes' = ExtractFrom(eDoc, 1)
    /\ eDoc' = TagEligible(eDoc)
    /\ ePc' = "branch"
    /\ UNCHANGED <<eIn, ePushed, eOut, headVars, anchorVars, applyVars, reintVars, callVars,
                   queueVars, batcherVars, storeVars, runVars>>

\* if (nodesToTranslate.length === 0) return $.html()
ReturnUntouched ==
    /\ ePc = "branch"
    /\ Len(eNodes) = 0
    /\ eOut' = Serialize(eDoc)
    /\ ePc' = "returned"
    /\ UNCHANGED <<eIn, eDoc, eNodes, ePushed, headVars, anchorVars, applyVars, reintVars, callVars,
                   queueVars, batcherVars, storeVars, runVars>>

\* the node list is not empty: it goes to the batcher, which pushes k tasks
PushBatches(k) ==
    /\ ePc = "branch"
    /\ Len(eNodes) > 0
    /\ k \in 1..Len(eNodes)
    /\ ePushed' = k
    /\ ePc' = "batch"
    /\ UNCHANGED <<eIn, eDoc, eNodes, eOut, headVars, anchorVars, applyVars, reintVars, callVars,
                   queueVars, batcherVars, storeVars, runVars>>

NextExtract ==
    \/ LoadMarkup
    \/ ExtractNodes
    \/ ReturnUntouched
    \/ \E k \in 1..MaxElems : PushBatches(k)

SpecExtract == InitExtract /\ [][NextExtract]_vars

(* ------------------------------- callAI -------------------------------- *)
\* userContent: undefined, the empty string, white space only, any other text
UserContents == {"undefined", "empty", "blank", "text"}

\* how a request to the service settles: with a text, with a text that has
\* white space around it, with a completion without content, or rejected
ServiceOutcomes == {"text", "padded", "nocontent", "rejected"}

\* !userContent?.trim()
IsNoOpMutEmpty(content) == content \in {"undefined", "empty"}

IsNoOp(content) == content \in {"undefined", "empty", "blank"}

InitCall ==
    /\ cBuild \in Builds
    /\ cProvider \in Providers
    /\ cContent \in UserContents
    /\ cJson \in BOOLEAN
    /\ cPc = "enter"
    /\ cRequests = 0
    /\ cOutcome = "none"
    /\ cResult = "none"
    /\ ApplyIdle
    /\ HeadingsIdle
    /\ AnchorsIdle
    /\ ReintIdle
    /\ ExtractIdle
    /\ QueueIdle
    /\ BatcherIdle
    /\ StoreIdle
    /\ RunIdle

\* callAI up to its first await: the guard, then generateContent or
\* chat.completions.create
EnterCall ==
    /\ cPc = "enter"
    /\ IF IsNoOp(cContent)
       THEN /\ cPc' = "returned"
            /\ cResult' = ""
            /\ UNCHANGED cRequests
       ELSE /\ cPc' = "awaiting"
            /\ cRequests' = cRequests + 1
            /\ UNCHANGED cResult
    /\ UNCHANGED <<cBuild, cProvider, cContent, cJson, cOutcome, headVars, anchorVars, applyVars,
                   reintVars, extractVars, queueVars, batcherVars, storeVars, runVars>>

\* the request settles with o: the text is trimmed and returned; a rejection,
\* or the TypeError of content.trim() on a completion without content, is
\* caught and thrown again
RequestSettles(o) ==
    /\ cPc = "awaiting"
    /\ o \in ServiceOutcomes
    /\ cOutcome' = o
    /\ IF o \in {"text", "padded"}
       THEN cPc' = "returned" /\ cResult' = "text"
       ELSE cPc' = "threw" /\ cResult' = o
    /\ UNCHANGED <<cBuild, cProvider, cContent, cJson, cRequests, headVars, anchorVars, applyVars,
                   reintVars, extractVars, queueVars, batcherVars, storeVars, runVars>>

NextCall ==
    \/ EnterCall
    \/ \E o \in ServiceOutcomes : RequestSettles(o)

SpecCall == InitCall /\ [][NextCall]_vars

(* ------------- the responses applied to one batch, on its own ---------- *)
\* the nestings a batch of n elements is drawn from in part_000: an element
\* lies in the element before it or in none, and at most one element is nested
BatchShapes(n) ==
    {p \in [1..n -> 0..n] :
        /\ \A k \in 1..n : p[k] = 0 \/ p[k] = k - 1
        /\ Cardinality({k \in 1..n : p[k] # 0}) <= 1}

\* every nesting of n elements numbered in document order
FullNestings(n) == {p \in [1..n -> 0..n] : \A k \in 1..n : p[k] < k}

\* at most one replacement of a response fails to parse
FailingSets(found) == {{}} \cup {{n} : n \in found}

\* what callAI hands to the worker: a failure, or a text in which the wrapper
\* of each node of found is recovered; the replacement of a node of bad is
\* markup that makes cheerio throw
ApplyResponses(batch) ==
    {[kind |-> "error", found |-> {}, bad |-> {}]} \cup
    UNION {{[kind |-> "text", found |-> f, bad |-> b] : b \in FailingSets(f)} :
              f \in SUBSET Range(batch)}

\* $parent(sel).html(x).removeAttr(attr) with the marker left on the element
ReplaceHtmlMutKeepMarker(d, p, n) ==
    IF Selected(d, n)
    THEN [i \in DOMAIN d |->
            IF i = n THEN [exists |-> TRUE, marker |-> TRUE, text |-> "new"]
            ELSE IF i \in Descendants(p, n)
                 THEN [exists |-> FALSE, marker |-> FALSE, text |-> d[i].text]
                 ELSE d[i]]
    ELSE d

\* the statement of the apply loop that replaces the content of node n
Replace(d, p, n) == ReplaceHtml(d, p, n)

UnrecoveredMutKeep(b, d, n) == d

\* the branch of the apply loop for a node the response does not hold: part_000
\* removes the marker, the other builds have no such branch
Unrecovered(b, d, n) == IF b = "part_000" THEN RemoveAttr(d, n) ELSE d

\* the replacement of node n throws and the loop is left: inside the inner try
\* of epubtest.js nothing leaves the loop
LeavesLoopMutNever(b, d, n, bad) == FALSE

LeavesLoop(b, d, n, bad) == n \in bad /\ Selected(d, n) /\ b # "epubtest"

\* the inner try of epubtest.js catches the failure and goes on to the next node
Skips(b, n, bad) == n \in bad /\ b = "epubtest"

RECURSIVE ApplyLoop(_, _, _, _, _, _, _)
\* for (const node of batch) { ... }: the document, whether the loop threw, and
\* how often the content of each node has been replaced
ApplyLoop(b, d, p, batch, found, bad, commits) ==
    IF batch = <<>> THEN [doc |-> d, threw |-> FALSE, commits |-> commits]
    ELSE LET n == Head(batch) IN
         IF n \notin found
         THEN ApplyLoop(b, Unrecovered(b, d, n), p, Tail(batch), found, bad, commits)
         ELSE IF LeavesLoop(b, d, n, bad)
              THEN [doc |-> d, threw |-> TRUE, commits |-> commits]
              ELSE IF Skips(b, n, bad)
                   THEN ApplyLoop(b, d, p, Tail(batch), found, bad, commits)
                   ELSE ApplyLoop(b, Replace(d, p, n), p, Tail(batch), found, bad,
                                  IF Selected(d, n)
                                  THEN [commits EXCEPT ![n] = @ + 1]
                                  ELSE commits)

\* part_000 throws before the apply loop when too few wrappers are recovered
RejectsMutAllBuilds(b, found, batch) == FormatInvalid(found, batch)

Rejects(b, found, batch) == b = "part_000" /\ FormatInvalid(found, batch)

InitApply ==
    /\ pBuild \in Builds
    /\ \E n \in 1..MaxBatch :
          /\ pBuild # "part_000" => n <= NumNodes
          /\ pPar \in IF pBuild = "part_000" THEN BatchShapes(n) ELSE FullNestings(n)
          /\ pDoc = TagAll(FreshDoc(n))
          /\ pBatch = [i \in 1..n |-> i]
          /\ pCommits = [i \in 1..n |-> 0]
    /\ pRound = 0
    /\ pAttempts = 1
    /\ pStatus = "IN_FLIGHT"
    /\ pLast = NoReply
    /\ pPrev = pDoc
    /\ pTexts = 0
    /\ HeadingsIdle
    /\ AnchorsIdle
    /\ ReintIdle
    /\ ExtractIdle
    /\ CallIdle
    /\ QueueIdle
    /\ BatcherIdle
    /\ StoreIdle
    /\ RunIdle

\* callAI settles with r and the worker resumes: validation, the apply loop,
\* then cb(null), or the catch branch
ReplyApply(r) ==
    /\ pStatus = "IN_FLIGHT"
    /\ r.kind = "text" => pTexts < MaxTexts
    /\ LET rejected == r.kind = "text" /\ Rejects(pBuild, r.found, pBatch)
           applies == r.kind = "text" /\ ~rejected
           loop == IF applies
                   THEN ApplyLoop(pBuild, pDoc, pPar, pBatch, r.found, r.bad, pCommits)
                   ELSE [doc |-> pDoc, threw |-> FALSE, commits |-> pCommits]
           failed == r.kind = "error" \/ rejected \/ loop.threw
       IN /\ pDoc' = IF failed /\ AttemptsExhausted(pAttempts) /\ pBuild = "part_000"
                     THEN StripBatch(loop.doc, pBatch)
                     ELSE loop.doc
          /\ pCommits' = loop.commits
          /\ pStatus' = IF ~failed THEN "SUCCESS"
                        ELSE IF AttemptsExhausted(pAttempts) THEN "EXHAUSTED"
                        ELSE "BACKOFF"
          /\ pLast' = IF applies
                      THEN [kind |-> "text", found |-> r.found, bad |-> r.bad,
                            threw |-> loop.threw]
                      ELSE [kind |-> IF rejected THEN "rejected" ELSE "error",
                            found |-> {}, bad |-> {}, threw |-> FALSE]
          /\ pTexts' = IF applies THEN pTexts + 1 ELSE pTexts
    /\ pPrev' = pDoc
    /\ UNCHANGED <<pBuild, pPar, pBatch, pRound, pAttempts>>
    /\ UNCHANGED <<headVars, anchorVars, reintVars, extractVars, callVars, queueVars,
                   batcherVars, storeVars, runVars>>

\* the 2 s timer fires and the while loop starts its next iteration
RetryApply ==
    /\ pStatus = "BACKOFF"
    /\ pAttempts' = pAttempts + 1
    /\ pStatus' = "IN_FLIGHT"
    /\ UNCHANGED <<pBuild, pPar, pDoc, pBatch, pRound, pLast, pPrev, pCommits, pTexts>>
    /\ UNCHANGED <<headVars, anchorVars, reintVars, extractVars, callVars, queueVars,
                   batcherVars, storeVars, runVars>>

\* the residual scan of a retry round: the elements that still carry a marker
\* are pushed again
NextRoundApply ==
    /\ pBuild # "part_000"
    /\ pStatus \in {"SUCCESS", "EXHAUSTED"}
    /\ pRound + 1 <= MAX_RETRY_ROUNDS
    /\ MarkedNodes(pDoc) # <<>>
    /\ pBatch' = MarkedNodes(pDoc)
    /\ pRound' = pRound + 1
    /\ pAttempts' = 1
    /\ pStatus' = "IN_FLIGHT"
    /\ UNCHANGED <<pBuild, pPar, pDoc, pLast, pPrev, pCommits, pTexts>>
    /\ UNCHANGED <<headVars, anchorVars, reintVars, extractVars, callVars, queueVars,
                   batcherVars, storeVars, runVars>>

NextApply ==
    \/ \E r \in ApplyResponses(pBatch) : ReplyApply(r)
    \/ RetryApply
    \/ NextRoundApply

SpecApply == InitApply /\ [][NextApply]_vars

(* ============================== claims ================================ *)
BatchNodes(t) == Range(tasks[t].batch)

\* the step is task t resuming with response r
IsReply(t, r) == ReplyThreshold(t, r) \/ ReplyRounds(t, r)

\* r is a text that recovers fewer than 80% of the ids of task t's batch
Below80(t, r) ==
    /\ r.kind = "text"
    /\ Cardinality(r.found) * 10 < Len(tasks[t].batch) * 8

NoMarkerLeft == \A n \in DOMAIN doc : ~doc[n].marker

TaskShape(task) ==
    /\ task.fails <= task.calls
    /\ task.calls <= task.attempts
    /\ task.attempts <= MAX_ATTEMPTS
    /\ task.calls <= 3
    /\ (task.pc = "done") = (task.status \in {"SUCCESS", "EXHAUSTED"})
    /\ task.status = "EXHAUSTED" => task.fails = 3 /\ task.calls = 3
    /\ task.status = "SUCCESS" => task.calls = task.fails + 1
    /\ task.status = "FAILED" => task.pc = "backoff" /\ task.fails = task.attempts
                                 /\ task.attempts < 3
    /\ task.pc = "calling" => task.calls = task.fails + 1

\* C3: a task calls the service at most 3 times; a failed attempt, whatever its
\* cause, is followed by a retry iff fewer than 3 attempts were made; a task ends
\* SUCCESS or EXHAUSTED, the latter only after exactly 3 failed attempts; and a
\* terminal task never changes again, so it makes no further call.
C3_TaskStateMachine ==
    /\ [](\A t \in DOMAIN tasks : TaskShape(tasks[t]))
    /\ [][\A t \in DOMAIN tasks :
            /\ (tasks[t].pc = "done" /\ retryRound' = retryRound) => tasks'[t] = tasks[t]
            /\ (tasks[t].pc = "calling" /\ tasks'[t].pc # "calling" /\ tasks'[t].fails # tasks[t].fails)
                  => (tasks'[t].pc = "backoff") = (tasks[t].attempts < 3)
            /\ tasks[t].pc = "backoff" /\ retryRound' = retryRound
                  => tasks'[t].pc \in {"backoff", "snapWait", "calling"}]_vars

\* a task given up after three failed attempts
C3_Witness ==
    \E t \in DOMAIN tasks :
        /\ tasks[t].status = "EXHAUSTED" /\ tasks[t].fails = 3
        /\ \E u \in DOMAIN tasks : tasks[u].status = "SUCCESS" /\ tasks[u].fails = 2

\* C4: the number of tasks between the start of their first attempt and their
\* completion signal never exceeds the configured concurrency.
C4_ConcurrencyCeiling == Cardinality(Running) <= concurrent

\* every slot is taken, one of the running tasks is in its backoff wait, and a
\* pushed task is held back
C4_Witness ==
    /\ Cardinality(Running) = concurrent
    /\ Queued # {}
    /\ \E t \in Running : tasks[t].pc = "backoff"

TermKeys(terms) == {terms[i].k : i \in DOMAIN terms}

\* C5: at most one task is inside the critical section of the glossary mutex,
\* and the snapshot of an attempt holds every key of every merge that started
\* before the snapshot was taken (no merge is seen in part).
C5_GlossaryAtomic ==
    /\ Cardinality(mutexHeld) <= 1
    /\ \A t \in DOMAIN tasks :
          tasks[t].pc = "calling" =>
              \A i \in DOMAIN mergeLog :
                  i <= tasks[t].snapMerges => TermKeys(mergeLog[i]) \subseteq KeysOf(tasks[t].snap)

\* an attempt holds a snapshot taken after a merge of two terms, while another
\* task holds the mutex
C5_Witness ==
    \E t \in DOMAIN tasks :
        /\ tasks[t].pc = "calling"
        /\ \E i \in DOMAIN mergeLog : i <= tasks[t].snapMerges /\ Len(mergeLog[i]) = 2
        /\ Len(tasks[t].snap) = 2

EntrySet(g) == Range(g)

\* C6: when two merges with disjoint key sets are all that was merged, the
\* glossary holds exactly the union of the two term sets, in either merge order.
C6_DisjointUnion ==
    (/\ Len(mergeLog) = 2
     /\ TermKeys(mergeLog[1]) \cap TermKeys(mergeLog[2]) = {})
    => /\ EntrySet(glossary) = EntrySet(mergeLog[1]) \cup EntrySet(mergeLog[2])
       /\ Len(glossary) = Len(mergeLog[1]) + Len(mergeLog[2])

\* two tasks ran together and the task pushed second merged first
C6_Witness ==
    /\ Len(tasks) = 2
    /\ mergeLog = <<HockBlock.terms, VisaBlock.terms>>
    /\ tasks[1].terms = VisaBlock.terms
    /\ tasks[2].terms = HockBlock.terms
    /\ tasks[1].pc = "done" /\ tasks[2].pc = "done"

\* C7: the keys of the store are unique, a merged term that was present leaves
\* one entry holding the merged value, and no operation removes a key.
C7_KeysUniqueAndKept ==
    /\ Cardinality(KeysOf(gStore)) = Len(gStore)
    /\ KeysOf(gStore) = Range(gCreated)
    /\ KeysOf(gLast.before) \subseteq KeysOf(gStore)
    /\ gLast.op = "merge" =>
          \A i \in DOMAIN gLast.terms :
              /\ Cardinality({j \in DOMAIN gStore : gStore[j].k = gLast.terms[i].k}) = 1
              /\ ValueOf(gStore, gLast.terms[i].k) = gLast.terms[i].v

\* a merge has just overwritten the value of a term that was in the store
C7_Witness ==
    /\ gLast.op = "merge"
    /\ \E i \in DOMAIN gLast.terms :
          /\ HasKey(gLast.before, gLast.terms[i].k)
          /\ ValueOf(gLast.before, gLast.terms[i].k) # gLast.terms[i].v
    /\ Len(gStore) > GLOSSARY_WINDOW

KeySeq(g) == [i \in DOMAIN g |-> g[i].k]

LastOf(seq, n) == SubSeq(seq, IF Len(seq) > n THEN Len(seq) - n + 1 ELSE 1, Len(seq))

\* C8 as stated: a snapshot holds at most 200 entries, and they are the most
\* recently inserted keys of the store, in insertion order, with their values.
C8_Original ==
    gLast.op = "snapshot" =>
        /\ Len(gSnap) <= GLOSSARY_WINDOW
        /\ KeySeq(gSnap) = LastOf(gCreated, GLOSSARY_WINDOW)
        /\ \A i \in DOMAIN gSnap : gSnap[i].v = ValueOf(gStore, gSnap[i].k)

BatchFits(batch, len, limit) ==
    \/ SumLen(batch, len) <= limit
    \/ Len(batch) = 1 /\ len[batch[1]] > limit

\* C9: every batch the batcher produces has a cumulative content length within
\* the budget, except a batch of a single node that alone exceeds the budget.
C9_BatchBudget ==
    bRan => \A i \in DOMAIN bOut : BatchFits(bOut[i], bLens, bLimit)

\* the batcher produced a batch of one oversized node and a batch of several
\* nodes that fills the budget exactly
C9_Witness ==
    /\ bRan
    /\ \E i \in DOMAIN bOut : Len(bOut[i]) = 1 /\ bLens[bOut[i][1]] > bLimit
    /\ \E i \in DOMAIN bOut : Len(bOut[i]) >= 2 /\ SumLen(bOut[i], bLens) = bLimit

\* C10: the batches, concatenated in order, are the input list; no batch is
\* empty; an empty list yields no batch.
C10_BatchPartition ==
    bRan =>
        /\ Flatten(bOut) = [i \in 1..Len(bLens) |-> i]
        /\ \A i \in DOMAIN bOut : Len(bOut[i]) >= 1
        /\ Len(bLens) = 0 => bOut = <<>>

\* the batcher split a list whose first node alone exceeds the budget
C10_Witness ==
    /\ bRan
    /\ Len(bLens) >= 3
    /\ bLens[1] > bLimit
    /\ Len(bOut) >= 2
    /\ \E i \in DOMAIN bOut : Len(bOut[i]) >= 2

\* the nodes of the batch set awaited, in push order
RECURSIVE TaskNodes(_)
TaskNodes(ts) == IF ts = <<>> THEN <<>> ELSE Head(ts).batch \o TaskNodes(Tail(ts))

\* the elements that carry a marker, in document order
StillMarked(d) == {n \in DOMAIN d : d[n].exists /\ d[n].marker}

IsSorted(seq) == \A i, j \in DOMAIN seq : i < j => seq[i] < seq[j]

EndedExhausted(t) ==
    /\ chapterPc = "await"
    /\ AllDone
    /\ tasks[t].status = "EXHAUSTED"

\* the nodes of task t for which no replacement was committed
Unresolved(t) == {n \in BatchNodes(t) : doc[n].text = "orig"}

C13_Original ==
    runPc = "fatal" => fatalCause \in {"load", "write"}

RECURSIVE Dedup(_, _)
\* seq without the later occurrences of an element; seen: the elements met so far
Dedup(seq, seen) ==
    IF seq = <<>> THEN <<>>
    ELSE IF Head(seq) \in seen THEN Dedup(Tail(seq), seen)
         ELSE <<Head(seq)>> \o Dedup(Tail(seq), seen \cup {Head(seq)})

\* the proposed ids that are chapters, in proposed order, then the other chapters
\* in their original order
CompletePlan(order, chs) ==
    LET proposed == Dedup(FilterKnown(order, Range(chs)), {})
    IN proposed \o SelectSeq(chs, LAMBDA id : id \notin Range(proposed))

\* the step is an attempt of the planner on response r that returns a plan
PlanReturns(r) == PlanReply(r) /\ runPc' \notin {"plan", "planBackoff"}

\* C14 as stated: on every parseable response (ids omitted, unknown or
\* repeated) the planner returns every input chapter exactly once and nothing
\* else: the proposed known ids in proposed order, then the omitted chapters in
\* their original order.
C14_Original ==
    [][\A r \in AllPlanResponses :
          (r.kind = "json" /\ PlanReply(r)) =>
              /\ runPc' \notin {"plan", "planBackoff"}
              /\ plan'.sorted = CompletePlan(r.order, chapters)]_vars

\* C15 as stated (part_001, epubtest.js): when the planner returns on a
\* parseable response whose tocId is the id of an input chapter, that chapter
\* is marked isTOC, whether or not its id is in the order array, and no other
\* chapter is marked.
C15_Original ==
    [][\A r \in AllPlanResponses :
          (/\ build # "part_000"
           /\ r.kind = "json"
           /\ r.tocId \in Range(chapters)
           /\ PlanReturns(r)
           /\ planFails' = planFails)
          => isTOC' = {r.tocId}]_vars

\* C16 as stated (part_001, epubtest.js): the planner calls the service at most
\* 3 times; when all 3 attempts failed it has returned the chapters in their
\* original order with tocId null and no chapter is marked isTOC, even if a
\* failed attempt had processed part of a response.
C16_Original ==
    /\ planCalls <= PLAN_ATTEMPTS
    /\ (/\ build # "part_000"
        /\ planFails = PLAN_ATTEMPTS
        /\ runPc \notin {"plan", "planBackoff"})
       => /\ plan.sorted = chapters
          /\ plan.tocId = NullId
          /\ isTOC = {}

\* C17 as stated: for every CorrectionMap and every document, applying the map
\* a second time to the result of the first application changes nothing.
C17_Original ==
    hPass = 2 => hTwice = hOnce

\* the first non-empty of: the direct text of the element, the text of its first
\* nested heading, of its first following sibling heading, of its closest
\* ancestor heading
Precedence(t) ==
    IF t.direct # Empty THEN t.direct
    ELSE IF t.nested # Empty THEN t.nested
    ELSE IF t.sibling # Empty THEN t.sibling
    ELSE t.ancestor

\* C18 as stated: the label of a reference file#fragment becomes the first
\* non-empty of (1) the direct text of the element with that id, (2) the text of
\* its first nested heading, (3) of its first following sibling heading, (4) of
\* its closest ancestor heading; a reference without fragment gets the chapter's
\* first heading.
C18_Original ==
    aPass \in {"toc", "ncx"} =>
        \A i \in DOMAIN aRefs :
            aRefs[i].file = "f1" =>
                /\ (aRefs[i].anchor = "s" /\ aTarget.hasId /\ Precedence(aTarget) # Empty)
                      => aOut[i].label = Precedence(aTarget)
                /\ (aRefs[i].anchor = "" /\ aTarget.first # Empty)
                      => aOut[i].label = aTarget.first

\* C19: a retargeting pass leaves the number and the order of the references
\* and the target (file and fragment) of every reference as they were; only
\* labels change.
C19_TargetsUnchanged ==
    aPass # "none" =>
        /\ Len(aOut) = Len(aRefs)
        /\ \A i \in DOMAIN aRefs :
              /\ aOut[i].file = aRefs[i].file
              /\ aOut[i].anchor = aRefs[i].anchor

\* a pass over two references with fragments rewrote the label of the first and
\* left the second, which points to no chapter, as it was
C19_Witness ==
    /\ aPass = "toc"
    /\ Len(aRefs) = 2
    /\ aRefs[1].file = "f1" /\ aRefs[1].anchor = "s"
    /\ aOut[1].label # aRefs[1].label
    /\ aRefs[2].file = "nofile" /\ aRefs[2].anchor = "s"
    /\ aOut[2] = aRefs[2]

\* a batch set is pushed onto the queue, or a chapter is handed over
Dispatches == submitted' # submitted \/ openTasks' > openTasks

\* heading normalization asks the service, or goes over the chapters, or (in
\* the loop of part_000) goes over a chapter that holds a heading
NormalizationActs ==
    \/ normCalls' # normCalls
    \/ (build # "part_000" \/ ~headings) /\ normDone' # normDone
    \/ applied' # applied /\ applied'[Len(applied')]

\* a pass over the table of contents or over the navigation resource runs, or
\* the label of a chapter's navigation entry is rewritten
RetargetingActs == retargeted' # retargeted

\* every chapter to process has been handed over and no task of it is open
AllTasksTerminal ==
    /\ openTasks = 0
    /\ cur > Len(ToProcess(plan.sorted, testLimit))

\* the steps of the pipeline up to retargeting, which all generations order alike
OrderUpToNormalization ==
    /\ planCalls' # planCalls => submitted = <<>> /\ openTasks = 0
    /\ Dispatches => /\ planCalls > 0
                     /\ planCalls' = planCalls
                     /\ normCalls = 0 /\ ~normDone /\ applied = <<>>
                     /\ retargeted = {} /\ saveCalls = 0
    /\ NormalizationActs => AllTasksTerminal /\ saveCalls = 0

Markup(d) == [i \in DOMAIN d |-> IF d[i].exists THEN d[i] ELSE [exists |-> FALSE]]

\* the document translateHtmlContent returns when the tasks of the batch set
\* complete in push order
InPushOrder ==
    LET d == CompleteInOrder(MarkedDoc(NumNodes), iPar, iVariant,
                             [i \in 1..NumNodes |-> i], iResp)
    IN IF iVariant = "threshold" THEN d ELSE RemoveAllAttr(d)

\* C21 as stated: for fixed per-batch responses the markup of the chapter that
\* is returned is the same for every order in which its tasks complete.
C21_Original ==
    iPc = "returned" => Markup(iDoc) = Markup(InPushOrder)

\* C22 as stated: for a chapter in which extraction finds no eligible node no
\* task is pushed and the returned content equals the input content with no
\* marker added.
C22_Original ==
    ePc = "returned" => ePushed = 0 /\ eOut = Unmarked(eIn)

\* the elements and their children, whatever form the markup writes them in
Structure(text) ==
    [i \in DOMAIN text |->
        [tag |-> text[i].tag,
         children |-> IF text[i].inner \in {"pair", "closed"} THEN "none" ELSE text[i].inner]]

\* an element of the markup the extractor is to pick: a selected tag whose inner
\* markup is not empty and not white space only
EligibleMarkup(el) == el.tag \in SelectorTags /\ el.inner \in {"markup", "text"}

\* C22 amended: a chapter goes to the batcher only if it holds an eligible
\* element; for a chapter without one no task is pushed and the node list is
\* empty, and the returned markup is the serialization of the parsed input: the
\* same elements with the same children in the same order, none with a marker.
\* It is the input character by character when the input writes no element as
\* an empty pair <x></x>, which the serializer returns as <x/>.
C22_ZeroNodeIdentity ==
    /\ ePc = "batch" => \E i \in DOMAIN eIn : EligibleMarkup(eIn[i])
    /\ ePc = "returned" =>
          /\ ePushed = 0 /\ eNodes = <<>>
          /\ \A i \in DOMAIN eIn : ~EligibleMarkup(eIn[i])
          /\ eDoc = Parse(eIn)
          /\ Structure(eOut) = Structure(eIn)
          /\ \A i \in DOMAIN eOut : eOut[i].marker = NoMarker
          /\ (\A i \in DOMAIN eIn : eIn[i].inner # "pair") => eOut = Unmarked(eIn)

\* a chapter of a blank paragraph, a picture in a div and an empty list item
\* came back with nothing pushed
C22_Witness ==
    /\ ePc = "returned"
    /\ ePushed = 0
    /\ eIn = <<[tag |-> "p", inner |-> "blank"], [tag |-> "div", inner |-> "markup"],
               [tag |-> "li", inner |-> "closed"]>>
    /\ eOut = Unmarked(eIn)

\* the ids of the node list
NodeIds(nodes) == {nodes[k].id : k \in DOMAIN nodes}

\* C23: after the extraction pass every selected element whose inner markup is
\* not empty and not white space only carries the marker node_<index>, index
\* being its place among the selected elements, and is in the node list under
\* that id; no two nodes of the list share an id; the list is in document
\* order; every other element carries no marker and is not in the list.
C23_Extractor ==
    ePc \in {"branch", "batch", "returned"} =>
        /\ \A n \in DOMAIN eIn :
              IF EligibleMarkup(eIn[n])
              THEN /\ eDoc[n].marker =
                         Cardinality({m \in 1..(n - 1) : eIn[m].tag \in SelectorTags})
                   /\ \E k \in DOMAIN eNodes :
                         eNodes[k].elem = n /\ eNodes[k].id = eDoc[n].marker
              ELSE /\ eDoc[n].marker = NoMarker
                   /\ \A k \in DOMAIN eNodes : eNodes[k].elem # n
        /\ \A j, k \in DOMAIN eNodes : j # k => eNodes[j].id # eNodes[k].id
        /\ \A j, k \in DOMAIN eNodes :
              j < k => eNodes[j].elem < eNodes[k].elem /\ eNodes[j].id < eNodes[k].id

\* a pass over a blank paragraph, a paragraph and a list item: the blank one is
\* counted but skipped, the others are node_1 and node_2
C23_Witness ==
    /\ ePc = "batch"
    /\ eIn = <<[tag |-> "p", inner |-> "blank"], [tag |-> "p", inner |-> "text"],
               [tag |-> "li", inner |-> "markup"]>>
    /\ eNodes = <<[id |-> 1, elem |-> 2], [id |-> 2, elem |-> 3]>>
    /\ eDoc[1].marker = NoMarker

\* C24: a call with empty or white-space-only user content returns the empty
\* text and issues no request; any other call issues exactly one request, and
\* when that request fails the failure is raised to the caller.
C24_CallGuard ==
    /\ cRequests <= 1
    /\ (cPc \in {"returned", "threw"} /\ cContent \in {"empty", "blank"}) =>
          cPc = "returned" /\ cResult = "" /\ cRequests = 0
    /\ (cPc # "enter" /\ cContent = "text") => cRequests = 1
    /\ cOutcome \in {"rejected", "nocontent"} => cPc = "threw" /\ cResult = cOutcome
    /\ cPc = "threw" => cOutcome \in {"rejected", "nocontent"}

\* a call with white space only as user content has returned
C24_Witness ==
    /\ cContent = "blank"
    /\ cPc = "returned"
    /\ cResult = ""
    /\ cRequests = 0

\* task t goes on to call the service in this step
StartsCall(t) ==
    /\ t \in DOMAIN tasks /\ t \in DOMAIN tasks'
    /\ retryRound' = retryRound
    /\ tasks[t].pc # "calling"
    /\ tasks'[t].pc = "calling"

Rejected(t, r) ==
    \/ r.kind = "error"
    \/ Cardinality(r.found) * 10 < Len(tasks[t].batch) * 8

WaitsToMerge(t) == t \in DOMAIN tasks /\ tasks[t].pc \in {"mergeWait", "mergeHeld"}

\* C26: the store changes only in the merge of a task whose attempt passed the
\* validation; a step in which a call settles with a failure or with a response
\* that is rejected leaves the store as it was and queues no merge, whatever
\* glossary block the response carried, and the terms that are merged are the
\* ones of the accepted response.
C26_MergeOnlyOnSuccess ==
    /\ [][/\ \A t \in DOMAIN tasks :
                (tasks[t].pc = "calling" /\ tasks'[t].pc # "calling") =>
                    \/ /\ glossary' = glossary /\ mergeLog' = mergeLog
                       /\ tasks'[t].pc \in {"backoff", "done"}
                       /\ tasks'[t].status \in {"FAILED", "EXHAUSTED"}
                       /\ tasks'[t].terms = <<>>
                       /\ mutexQueue' = mutexQueue
                    \/ \A r \in AnyResponse : Rejected(t, r) => ~ReplyThreshold(t, r)
          /\ \A t \in DOMAIN tasks :
                (tasks[t].pc # "mergeWait" /\ t \in DOMAIN tasks' /\ tasks'[t].pc = "mergeWait") =>
                    \E r \in AnyResponse :
                        /\ ReplyThreshold(t, r) /\ ~Rejected(t, r)
                        /\ Parses(r.gloss) /\ tasks'[t].terms = r.gloss.terms
          /\ (glossary' # glossary \/ mergeLog' # mergeLog) =>
                \E t \in DOMAIN tasks :
                    /\ tasks[t].pc = "mergeHeld" /\ tasks'[t].status = "SUCCESS"
                    /\ tasks[t].terms # <<>>
                    /\ mergeLog' = Append(mergeLog, tasks[t].terms)
                    /\ glossary' = ObjectAssign(glossary, tasks[t].terms)]_vars
    /\ [](\A t \in DOMAIN tasks :
            /\ WaitsToMerge(t) => tasks[t].status = "IN_FLIGHT" /\ tasks[t].error = "none"
            /\ ~WaitsToMerge(t) => tasks[t].terms = <<>> \/ tasks[t].status = "SUCCESS")

\* a task is given up after three rejected responses while the store still
\* holds nothing, and another task has queued the merge of the
\* terms of its accepted response
C26_Witness ==
    /\ variant = "threshold"
    /\ \E t \in DOMAIN tasks :
          /\ tasks[t].status = "EXHAUSTED" /\ tasks[t].error = "format"
          /\ tasks[t].fails = MAX_ATTEMPTS
    /\ \E u \in DOMAIN tasks : tasks[u].pc = "mergeWait" /\ tasks[u].terms # <<>>
    /\ glossary = <<>> /\ mergeLog = <<>>

\* task t has applied the replacements of an accepted response and has not yet
\* merged the terms the response reported
BetweenApplyAndMerge(t) == WaitsToMerge(t)

\* the worker of another task than t, one that has been started, takes a step
OtherTaskSteps(t) ==
    \E u \in DOMAIN tasks \ {t} :
        /\ tasks[u].pc # "queued"
        /\ u \notin DOMAIN tasks' \/ tasks'[u] # tasks[u]

\* C27 as stated: no step of another task comes between the replacements of an
\* attempt and the end of the merge of its glossary terms.
C27_Original ==
    [][\A t \in DOMAIN tasks : BetweenApplyAndMerge(t) => ~OtherTaskSteps(t)]_vars

\* the worker of t resumes after its call and accepts the response
AcceptsResponse(t) ==
    /\ t \in DOMAIN tasks /\ t \in DOMAIN tasks'
    /\ retryRound' = retryRound
    /\ tasks[t].pc = "calling" /\ tasks'[t].pc # "calling"
    /\ tasks'[t].fails = tasks[t].fails

\* C27 amended: a step belongs to one task; the replacements of an accepted
\* response are all applied in the step in which the worker resumes (in the
\* threshold generation no marker of the batch is left after it) and the terms
\* of a merge enter the store in one step, taken while the task holds the lock.
\* Between the two the task waits for the lock, as it does before each
\* snapshot, and steps of other tasks may come in between.
C27_SuspensionPoints ==
    /\ [][/\ retryRound' = retryRound /\ DOMAIN tasks' = DOMAIN tasks =>
                Cardinality({t \in DOMAIN tasks : tasks'[t] # tasks[t]}) <= 1
          /\ doc' # doc /\ chapterPc' = chapterPc =>
                \E t \in DOMAIN tasks :
                    /\ tasks[t].pc = "calling" /\ tasks'[t].pc # "calling"
                    /\ \A n \in DOMAIN doc :
                          doc'[n] # doc[n] =>
                              \E b \in Range(tasks[t].batch) : n = b \/ IsAncestor(par, b, n)
          /\ \A t \in DOMAIN tasks :
                (AcceptsResponse(t) /\ variant = "threshold") =>
                    \A n \in Range(tasks[t].batch) : ~Selected(doc', n)
          /\ glossary' # glossary =>
                \E t \in DOMAIN tasks :
                    /\ t \in mutexHeld /\ mutexHeld' = {}
                    /\ tasks[t].pc = "mergeHeld" /\ tasks'[t].pc = "done"
                    /\ KeysOf(glossary') = KeysOf(glossary) \cup TermKeys(tasks[t].terms)]_vars
    /\ [](\A t \in DOMAIN tasks :
            /\ tasks[t].pc \in {"snapHeld", "mergeHeld"} <=> t \in mutexHeld
            /\ tasks[t].pc \in {"snapWait", "mergeWait"} => t \in Range(mutexQueue))

\* a task has applied its replacements and waits for the lock to merge, behind
\* another task that has taken the lock for the snapshot of its retry
C27_Witness ==
    /\ variant = "threshold"
    /\ \E t \in DOMAIN tasks : \E u \in DOMAIN tasks :
          /\ tasks[t].pc = "mergeWait" /\ ~Selected(doc, tasks[t].batch[1])
          /\ doc[tasks[t].batch[1]].text = "new"
          /\ tasks[u].pc = "snapHeld" /\ tasks[u].attempts = 2
          /\ u \in mutexHeld

\* C28: for every two consecutive batches of the batcher's output, the content
\* length of the earlier batch plus the content length of the first node of the
\* later batch is greater than the budget.
C28_GreedyPacking ==
    bRan =>
        \A i \in 1..(Len(bOut) - 1) :
            /\ bOut[i] # <<>> /\ bOut[i + 1] # <<>>
            /\ SumLen(bOut[i], bLens) + bLens[bOut[i + 1][1]] > bLimit

\* three batches; the first is filled to the budget exactly, the second holds
\* two nodes and stays below the budget because the next node would not fit
C28_Witness ==
    /\ bRan /\ Len(bOut) = 3
    /\ SumLen(bOut[1], bLens) = bLimit
    /\ Len(bOut[2]) = 2 /\ SumLen(bOut[2], bLens) < bLimit

\* the completion signal task t has given to the queue: cb(null) makes the
\* ticket emit finish, cb(e) makes it emit failed
Signal(t) ==
    IF tasks[t].pc # "done" THEN "none"
    ELSE IF tasks[t].status = "SUCCESS" THEN "finish" ELSE "failed"

\* how far the worker of a task has come: attempts made, then the place
\* inside the attempt
PcRank(pc) ==
    CASE pc = "queued" -> 0
      [] pc = "snapWait" -> 1
      [] pc = "snapHeld" -> 2
      [] pc = "calling" -> 3
      [] pc = "mergeWait" -> 4
      [] pc = "mergeHeld" -> 5
      [] pc = "backoff" -> 8
      [] pc = "done" -> 9

TaskRank(task) == task.attempts * 10 + PcRank(task.pc)

\* a step of the worker of some task, of the queue or of the lock
TaskStep ==
    \/ \E t \in TaskIds : QueueStart(t)
    \/ MutexAcquire
    \/ \E t \in TaskIds : Snapshot(t)
    \/ \E t \in TaskIds, r \in AnyResponse : ReplyThreshold(t, r)
    \/ \E t \in TaskIds, r \in AnyResponse : ReplyRounds(t, r)
    \/ \E t \in TaskIds : Merge(t)
    \/ \E t \in TaskIds : BackoffElapsed(t)

\* the continuation of translateHtmlContent after Promise.all
ChapterStep == ReturnThreshold \/ RetryRound \/ StripAndReturn

\* C29: a pushed task signals once, finish in the step that ends an attempt
\* without a failure, failed in the step of its third failed attempt, and the
\* signal it gave stays. The wait of the chapter on a batch set goes on only
\* when every task of the set has signalled, and it always ends: while a task
\* has not signalled some worker, the queue or the lock can take a step, every
\* such step moves one task forward in a rank that is bounded, and when all
\* have signalled the continuation of the chapter is ready to run.
C29_CompletionSignal ==
    /\ [][\A t \in DOMAIN tasks :
            (t \in DOMAIN tasks' /\ retryRound' = retryRound) =>
                /\ Signal(t) # "none" => tasks'[t] = tasks[t]
                /\ (Signal(t) = "none" /\ Signal(t)' = "finish") =>
                      /\ tasks[t].pc \in {"calling", "mergeHeld"}
                      /\ tasks'[t].fails = tasks[t].fails
                      /\ tasks[t].attempts \in 1..MAX_ATTEMPTS
                /\ (Signal(t) = "none" /\ Signal(t)' = "failed") =>
                      /\ tasks[t].pc = "calling"
                      /\ tasks[t].attempts = MAX_ATTEMPTS
                      /\ tasks'[t].fails = MAX_ATTEMPTS]_vars
    /\ [][(chapterPc = "await" /\ (chapterPc' # "await" \/ retryRound' # retryRound)) =>
            \A t \in DOMAIN tasks : Signal(t) # "none"]_vars
    /\ [][(chapterPc = "await" /\ chapterPc' = "await" /\ retryRound' = retryRound) =>
            \E t \in DOMAIN tasks :
                /\ TaskRank(tasks'[t]) > TaskRank(tasks[t])
                /\ TaskRank(tasks'[t]) <= MAX_ATTEMPTS * 10 + 9
                /\ \A u \in DOMAIN tasks \ {t} : tasks'[u] = tasks[u]]_vars
    /\ [](chapterPc = "await" =>
            IF AllDone THEN ENABLED ChapterStep ELSE ENABLED TaskStep)

\* the wait on the batch set of the second retry round has ended on a failed
\* signal, and a task of the third round has signalled finish after two failed
\* attempts
C29_Witness ==
    /\ chapterPc = "await" /\ retryRound = 3
    /\ exhaustedBefore # {}
    /\ \E t \in DOMAIN tasks : Signal(t) = "finish" /\ tasks[t].fails = 2

\* the wait of the threshold generation has ended on a failed and a finish signal
C29_WitnessThreshold ==
    /\ variant = "threshold" /\ chapterPc = "done"
    /\ \E t \in DOMAIN tasks : Signal(t) = "failed"
    /\ \E t \in DOMAIN tasks : Signal(t) = "finish" /\ mergeLog # <<>>

RECURSIVE SumRank(_)
SumRank(ts) == IF ts = <<>> THEN 0 ELSE TaskRank(Head(ts)) + SumRank(Tail(ts))

\* more than the ranks of the tasks of one batch set can add up to
RoundWeight == NumNodes * (MAX_ATTEMPTS * 10 + 9) + 1

\* how far the translation of the chapter has come
ChapterRank ==
    CASE chapterPc = "extract" -> 0
      [] chapterPc = "await" -> 1 + retryRound * RoundWeight + SumRank(tasks)
      [] chapterPc = "done" -> 1 + (MAX_RETRY_ROUNDS + 1) * RoundWeight

\* the tasks of the current batch set that include node n
TasksOf(n) == {t \in DOMAIN tasks : n \in BatchNodes(t)}

C30_WitnessThreshold ==
    /\ variant = "threshold" /\ chapterPc = "done" /\ retryRound = 0
    /\ \E t \in DOMAIN tasks : tasks[t].calls = MAX_ATTEMPTS

\* the apply loop has handled a response that passed the validation of part_000
Accepted == pBuild = "part_000" /\ pLast.kind = "text" /\ ~pLast.threw

\* at least 80% of the ids of the batch were recovered, and not all
PartlyRecovered ==
    /\ Cardinality(pLast.found) * 10 >= Len(pBatch) * 8
    /\ Cardinality(pLast.found) < Len(pBatch)

\* the element of an extracted node around n was replaced by the last response
ReplacedAround(n) ==
    \E a \in Ancestors(pPar, n) : a \in pLast.found /\ Selected(pPrev, a)

Handled == pBuild # "part_000" /\ pLast.kind = "text" /\ ~pLast.threw

\* the ids whose replacement the loop applied: in epubtest.js a replacement
\* that fails to parse is skipped
Effective == IF pBuild = "epubtest" THEN pLast.found \ pLast.bad ELSE pLast.found

\* the element of an extracted node around n was replaced by the last response
ReplacedAroundEffective(n) ==
    \E a \in Ancestors(pPar, n) : a \in Effective /\ Selected(pPrev, a)

C32_WitnessSkipped ==
    /\ pBuild = "epubtest" /\ Handled /\ pStatus = "SUCCESS"
    /\ \E n \in pLast.bad : Selected(pDoc, n) /\ pDoc[n].text = "orig"

\* C33 as stated: applying the replacements of a response changes the elements
\* of the recovered nodes only; every other extracted node, also one nested in
\* the element of a recovered node, still exists with the content it had, and
\* with its marker unless the loop stripped it.
C33_Original ==
    (pLast.kind = "text" /\ ~pLast.threw) =>
        \A m \in DOMAIN pDoc :
            m \notin pLast.found =>
                /\ pDoc[m].exists = pPrev[m].exists
                /\ pDoc[m].text = pPrev[m].text
                /\ pBuild # "part_000" => pDoc[m].marker = pPrev[m].marker

\* the content of node n has been replaced by a response
Committed(n) == pCommits[n] > 0

\* the content of an extracted node around n is replaced in this step
AncestorCommits(n) == \E a \in Ancestors(pPar, n) : pCommits'[a] # pCommits[a]

NotJsonObject(r) == r.kind = "text" /\ r.gloss.block \in {"bad", "array"}

\* the response t's call has just settled with was accepted and carried g
SettledWith(t, r) ==
    /\ t \in DOMAIN tasks /\ tasks[t].pc = "calling" /\ tasks'[t].pc # "calling"
    /\ ~Rejected(t, r)
    /\ ReplyThreshold(t, r)

\* C36: when a response that passed the validation carries a glossary block
\* that is not a valid JSON object, the replacements of the attempt are applied
\* and stay, the store is left as it was and no merge is queued, the attempt is
\* not repeated and the task ends SUCCESS; the store never holds an entry that
\* did not come from a JSON object.
C36_Original ==
    /\ [][\A t \in DOMAIN tasks : \A r \in AnyResponse :
            (NotJsonObject(r) /\ SettledWith(t, r)) =>
                /\ doc' = ApplyValidated(doc, par, tasks[t].batch, r.found)
                /\ glossary' = glossary /\ mergeLog' = mergeLog
                /\ mutexQueue' = mutexQueue
                /\ tasks'[t].pc = "done" /\ tasks'[t].status = "SUCCESS"
                /\ tasks'[t].attempts = tasks[t].attempts
                /\ tasks'[t].calls = tasks[t].calls]_vars
    /\ [](\A i \in DOMAIN glossary : glossary[i].k.kind = "str")

\* the part of C36 about a block whose text does not parse
C36_Unparsable ==
    [][\A t \in DOMAIN tasks : \A r \in AnyResponse :
            (r.kind = "text" /\ r.gloss.block = "bad" /\ SettledWith(t, r)) =>
                /\ doc' = ApplyValidated(doc, par, tasks[t].batch, r.found)
                /\ glossary' = glossary /\ mergeLog' = mergeLog
                /\ mutexQueue' = mutexQueue
                /\ tasks'[t].pc = "done" /\ tasks'[t].status = "SUCCESS"
                /\ tasks'[t].attempts = tasks[t].attempts
                /\ tasks'[t].calls = tasks[t].calls]_vars

\* the store holds the index entry of an array block
C36_ArrayMerged == HasKey(glossary, IdxKey(0))

\* the chapter whose call of translateHtmlContent is being awaited
CurrentChapter == ToProcess(plan.sorted, testLimit)[cur]

\* C35: the tasks that are pending or in flight all belong to the chapter that
\* is being awaited and to its current round: while a task is open no batch set
\* is pushed and neither the chapter nor the round changes; the first batch set
\* of a chapter is pushed when no task is open, the round counter is back at 0
\* and every chapter submitted before has returned; a retry round is pushed
\* only when no task of the round before it is open.
C35_OneChapterOneRound ==
    /\ [](openTasks > 0 =>
            /\ runPc = "chapter"
            /\ submitted # <<>> /\ submitted[Len(submitted)] = CurrentChapter
            /\ \A i \in 1..(Len(submitted) - 1) : html[submitted[i]] = "processed")
    /\ [][/\ openTasks > 0 =>
                /\ openTasks' = openTasks - 1
                /\ cur' = cur /\ chapterRound' = chapterRound
                /\ submitted' = submitted /\ runPc' = runPc
          /\ submitted' # submitted =>
                /\ openTasks = 0 /\ chapterRound = 0 /\ runPc = "translate"
                /\ \A i \in DOMAIN submitted : html[submitted[i]] = "processed"
          /\ chapterRound' > chapterRound =>
                /\ openTasks = 0 /\ runPc = "chapter" /\ cur' = cur
                /\ chapterRound' = chapterRound + 1]_vars

\* the second chapter is in its second retry round with a task open, after the
\* first chapter went through a retry round of its own and returned
C35_Witness ==
    /\ runPc = "chapter" /\ cur = 2 /\ chapterRound = 2 /\ openTasks > 0
    /\ Len(submitted) = 2 /\ html[submitted[1]] = "processed"
    /\ html[submitted[2]] = "input"

\* the chapters of the plan within the processing limit that are not marked as
\* the table of contents, in plan order
OtherChapters ==
    SelectSeq(ToProcess(plan.sorted, testLimit),
              LAMBDA c : c # Undefined /\ c \notin isTOC)

IsPrefix(s, t) == Len(s) <= Len(t) /\ s = SubSeq(t, 1, Len(s))

\* performTranslation is over: it returned or it threw
TranslationOver == runPc \notin {"load", "plan", "planBackoff", "glossary", "translate", "chapter"}

\* no chapter marked as the table of contents is handed to translateHtmlContent,
\* and the chapters handed to it are the first ones of the other chapters of the
\* plan, each once and in plan order
TocSkippedOthersInOrder ==
    /\ \A i \in DOMAIN submitted : submitted[i] \notin isTOC
    /\ IsPrefix(submitted, OtherChapters)
    /\ openTasks > 0 => CurrentChapter \notin isTOC

\* C37: a chapter marked as the table of contents is never handed to
\* translateHtmlContent, so it is never extracted, batched or dispatched and no
\* call of the translation step carries it; every other chapter of the plan
\* within the processing limit is handed to it exactly once, in plan order, so
\* that once the translation step is over all of them were submitted.
C37_Original ==
    /\ []TocSkippedOthersInOrder
    /\ [](TranslationOver => submitted = OtherChapters)

\* the part of C37 that holds: the skip, the order, at most once, and all of
\* them when performTranslation returned
C37_WhenReturned ==
    /\ []TocSkippedOthersInOrder
    /\ []((TranslationOver /\ fatalCause # "plan") => submitted = OtherChapters)

\* the plan holds the marked chapter first and another chapter after it, the
\* translation step returned and only the other chapter was submitted
C37_TocSkipped ==
    /\ build # "part_000" /\ TranslationOver /\ fatalCause = "none"
    /\ Len(plan.sorted) = 2 /\ plan.sorted[1] \in isTOC
    /\ submitted = <<plan.sorted[2]>>

\* performTranslation threw on an undefined element of the plan and the chapter
\* after it was never submitted
C37_ChapterLost ==
    /\ runPc = "fatal" /\ fatalCause = "plan"
    /\ \E i \in DOMAIN plan.sorted :
          plan.sorted[i] # Undefined /\ plan.sorted[i] \notin isTOC
          /\ (testLimit = 0 \/ i <= testLimit)
          /\ \A j \in DOMAIN submitted : submitted[j] # plan.sorted[i]

\* the normalization request has just failed: callAI rejected, or the text of
\* the response is no JSON
NormRequestFails == \E r \in {"error", "unparsable"} : NormReply(r)

\* heading normalization is running
Normalizing == runPc \in {"normalize", "normBackoff", "normApply"}

\* the step ends after every attempt of the normalization request failed
NormGivesUp ==
    /\ Normalizing /\ runPc' \notin {"normalize", "normBackoff", "normApply"}
    /\ headings /\ corrections' = "empty" /\ normFails' > 0

\* C38: the normalization request is sent at most 3 times; a failure of the
\* request never ends the run; when every attempt failed the chapters are as
\* they were before the step, the run goes on with the retargeting of the
\* cross-references and reaches the save.
C38_Original ==
    /\ [](normCalls <= NORMALIZE_ATTEMPTS /\ normFails <= NORMALIZE_ATTEMPTS)
    /\ [][NormRequestFails =>
            /\ runPc' \in {"normBackoff", "normApply"}
            /\ fatalCause' = fatalCause /\ html' = html
            /\ corrections' = corrections]_vars
    /\ [][(Normalizing /\ corrections = "empty" /\ corrections' = "empty") =>
            /\ html' = html
            /\ runPc' # "fatal"]_vars
    /\ [][NormGivesUp => runPc' \in {"retarget", "save"} /\ normDone']_vars

\* the part of C38 that holds in part_000 and part_001
C38_WithTry ==
    /\ [](normCalls <= NORMALIZE_ATTEMPTS /\ normFails <= NORMALIZE_ATTEMPTS)
    /\ [][(build # "epubtest" /\ NormRequestFails) =>
            /\ runPc' \in {"normBackoff", "normApply"}
            /\ fatalCause' = fatalCause /\ html' = html
            /\ corrections' = corrections]_vars
    /\ [][(build # "epubtest" /\ Normalizing /\ corrections = "empty"
           /\ corrections' = "empty") =>
            /\ html' = html
            /\ runPc' # "fatal"]_vars
    /\ [][(build # "epubtest" /\ NormGivesUp) =>
            runPc' \in {"retarget", "save"} /\ normDone']_vars

\* three attempts of the request failed and the run went on to the retargeting
C38_GaveUpAndWentOn ==
    /\ build = "part_001" /\ normFails = NORMALIZE_ATTEMPTS /\ normCalls = NORMALIZE_ATTEMPTS
    /\ corrections = "empty" /\ normDone /\ runPc = "retarget"

\* the one request of the marker-based normalization was rejected and the run
\* ended there
C38_FatalOnFailure ==
    /\ build = "epubtest" /\ normCalls = 1 /\ runPc = "fatal" /\ fatalCause = "normalize"
====
